---------------------------- MODULE Spec2Model ----------------------------
(***************************************************************************)
(* A model of the cfx helper library: the pure calculations                *)
(* (get_next_multi_index, get_next_name, version_up_file's file name),     *)
(* the undo decorator, cache_sim's precondition checks, the show_ui        *)
(* launcher, the Node wrapper and its set_attr, Group.create,              *)
(* display_layer, file_import, the weight map export and import, and       *)
(* Hair.execute, each with the part of the host (scene, selection, undo    *)
(* queue, widget tree, hierarchy, display layers, files) its code reads    *)
(* and writes.                                                             *)
(***************************************************************************)
EXTENDS Integers, Sequences, FiniteSets, TLC

VARIABLES
    \* ---- multi attribute of a node (get_next_multi_index) ----
    multi,          \* the indices of the multi attribute that are in use
    idx_list,       \* what getAttr(multiIndices=True) gave the last call
    idx_result      \* what the last get_next_multi_index call returned

VARIABLES
    \* ---- get_next_name: the call's arguments, locals and position ----
    gnn_pc,         \* "idle" (not called), "loop" (at the while), "done"
    gnn_name,       \* argument name
    gnn_existing,   \* argument existing_names (only membership is asked)
    gnn_padding,    \* argument padding
    gnn_base,       \* local name_base
    gnn_num,        \* local num
    gnn_new_name    \* local new_name, the return value at "done"

VARIABLES
    \* ---- version_up_file and the host's current scene file ----
    scene_path,     \* cmds.file(query=True, sceneName=True)
    vu_saves,       \* version-ups since the scene was opened
    vu_op,          \* the last step: "none", "open", "version_up"
    vu_before,      \* the scene path the last version_up_file call found
    vu_popup_arg,   \* its argument popup_confirmation
    vu_result,      \* its return value: [none |-> TRUE] or [path |-> ...]
    vu_renamed,     \* whether it issued cmds.file(rename=...)
    vu_written,     \* the file its cmds.file(save=True) wrote, or [none]
    vu_popup,       \* whether it showed the confirmation pop-up
    vu_warned       \* whether it logged the warning

VARIABLES
    \* ---- the undo decorator and the host's undo chunks ----
    ud_base,        \* chunks open before any wrapped call
    ud_chunks,      \* chunks open in the host now
    ud_stack,       \* the wrapped calls in progress, innermost last
    ud_calls,       \* wrapped calls made so far
    ud_exc,         \* whether an exception is propagating out of a call
    ud_trace,       \* the host commands and exits, in program order
    ud_func_ret,    \* what the last wrapped function returned
    ud_ret          \* what the last call of its wrapper returned

VARIABLES
    \* ---- cache_sim and the host's scene, selection and caches ----
    cs_scene,       \* the nodes that exist
    selection,      \* cmds.ls(selection=True)
    cs_cached,      \* the nodes that have a cache
    cs_args,        \* the last cache_sim call's arguments
    cs_result,      \* "none", "ok" or "AssertionError"
    cs_selects,     \* cmds.select calls the last call made
    cs_mel,         \* the commands the last call gave to mel.eval
    cs_deleted      \* the caches the last call deleted

VARIABLES
    \* ---- show_ui and the widgets of the host ----
    ui_wins,        \* the live windows: id, class, child of the main
                    \* window or not, shown or hidden, deleteLater called
    ui_next_id,     \* the next window's id
    ui_calls,       \* show_ui calls made so far
    ui_last         \* the last show_ui call: class, outcome, windows found

VARIABLES
    \* ---- the Node wrapper and the host's scene ----
    nd_scene,       \* the names the host reports as existing
    nd_handle,      \* Node.node
    nd_op,          \* the last operation
    nd_result,      \* its result
    nd_cleared      \* the handle an exists() that returned False cleared

VARIABLES
    \* ---- Node.set_attr and the host's nodes and attribute values ----
    sa_scene,       \* the names the host reports as existing
    sa_values,      \* the value of the tx attribute of each node
    sa_handle,      \* Node.node
    sa_op,          \* the last step: "init", "new", "set_attr", "host"
    sa_attr,        \* the last set_attr call's argument attribute
    sa_issued,      \* the plug that call gave to cmds.setAttr, or NoName
    sa_outcome,     \* "returned", "AssertionError" or "TypeError"
    sa_result       \* the value that call returned (NoName for None)

VARIABLES
    \* ---- Group.create and the host's hierarchy of nodes ----
    grp_tree,       \* each name's parent, World, or Absent (no such node)
    grp_locked,     \* the nodes whose channels are locked
    grp_hidden,     \* the hidden nodes
    grp_obj,        \* the Group object: name, node (the Node handle),
                    \* nodes, parent, lock_attrs, viz
    grp_op,         \* the last step: "init", "new", "exists", "create", "host"
    grp_issued,     \* the group commands the last create() gave the host
    grp_result      \* what the last create() or exists() returned or raised

VARIABLES
    \* ---- display_layer and the host's display layers ----
    dl_objs,        \* the objects that exist
    dl_others,      \* nodes that are no layers but carry a layer's name
    dl_layers,      \* the display layers that exist
    dl_member,      \* the layer each object is in (defaultLayer at first)
    dl_visible,     \* the layers whose visibility is on
    dl_colored,     \* the layers that were given a colour
    dl_op,          \* the last step: "init", "display_layer", "host"
    dl_args,        \* the last call's arguments
    dl_created,     \* whether that call issued createDisplayLayer
    dl_result       \* what it returned, or the error it raised

VARIABLES
    \* ---- file_import and the host's scene and files ----
    fi_files,       \* the files that exist on disk
    fi_tree,        \* each node's parent, World, or Absent
    fi_layers,      \* the display layers besides defaultLayer
    fi_op,          \* the last step: "init", "file_import", "host"
    fi_args,        \* the last call's arguments
    fi_post_objs,   \* cmds.ls(assemblies=True) after its import
    fi_post_layers, \* cmds.ls(type='displayLayer') after its import
    fi_parent_cmd,  \* its cmds.parent call: issued or not, the nodes given
    fi_delete_cmd,  \* its cmds.delete call: issued or not, the layers given
    fi_result       \* "ok", "AssertionError" or "RuntimeError"

VARIABLES
    \* ---- export_dyn_weightmaps, import_dyn_weightmaps, the host's ----
    \* ---- attribute values and the weight map file                 ----
    wm_values,      \* the value getAttr gives for each plug
    wm_file,        \* the bytes of the file at file_path, or NoFile
    wm_exported,    \* the export_dict of the export that wrote the file
    wm_op,          \* the last step: "init", "export", "import", "host"
    wm_before,      \* the values the last import found in the scene
    wm_set,         \* the setAttr calls of the last import: plug -> value
    wm_result       \* "ok" or "AssertionError"

VARIABLES
    \* ---- Hair.execute, the Hair object and the host's scene ----
    hx_tree,        \* the groups of the rig: parent, World, or Absent
    hx_groom_shape, \* Hair.groom_shape: the shape's name, or None
    hx_pc,          \* where execute() is: "idle", a step, "returned",
                    \* "raised"
    hx_trace,       \* the steps execute() has entered, in order
    hx_output_curves, \* Hair.output_curves
    hx_rebuilt,     \* the output curves rebuildCurve was called for
    hx_follicles,   \* the output curves a follicle was created for
    hx_cmds,        \* scene-changing host commands execute() has issued
    hx_error        \* the exception that ended execute(), or "none"

idx_vars == <<multi, idx_list, idx_result>>
gnn_vars == <<gnn_pc, gnn_name, gnn_existing, gnn_padding, gnn_base, gnn_num,
              gnn_new_name>>
vu_vars == <<scene_path, vu_saves, vu_op, vu_before, vu_popup_arg, vu_result,
             vu_renamed, vu_written, vu_popup, vu_warned>>
ud_vars == <<ud_base, ud_chunks, ud_stack, ud_calls, ud_exc, ud_trace,
             ud_func_ret, ud_ret>>
cs_vars == <<cs_scene, selection, cs_cached, cs_args, cs_result, cs_selects,
             cs_mel, cs_deleted>>
ui_vars == <<ui_wins, ui_next_id, ui_calls, ui_last>>
nd_vars == <<nd_scene, nd_handle, nd_op, nd_result, nd_cleared>>
sa_vars == <<sa_scene, sa_values, sa_handle, sa_op, sa_attr, sa_issued,
             sa_outcome, sa_result>>
grp_vars == <<grp_tree, grp_locked, grp_hidden, grp_obj, grp_op, grp_issued,
              grp_result>>
dl_vars == <<dl_objs, dl_others, dl_layers, dl_member, dl_visible, dl_colored,
             dl_op, dl_args, dl_created, dl_result>>
fi_vars == <<fi_files, fi_tree, fi_layers, fi_op, fi_args, fi_post_objs,
             fi_post_layers, fi_parent_cmd, fi_delete_cmd, fi_result>>
wm_vars == <<wm_values, wm_file, wm_exported, wm_op, wm_before, wm_set,
             wm_result>>
hx_vars == <<hx_tree, hx_groom_shape, hx_pc, hx_trace, hx_output_curves,
             hx_rebuilt, hx_follicles, hx_cmds, hx_error>>

vars == <<idx_vars, gnn_vars, vu_vars, ud_vars, cs_vars, ui_vars, nd_vars,
          sa_vars, grp_vars, dl_vars, fi_vars, wm_vars, hx_vars>>

\* What each part of the library leaves alone.
not_idx == <<gnn_vars, vu_vars, ud_vars, cs_vars, ui_vars, nd_vars, sa_vars,
             grp_vars, dl_vars, fi_vars, wm_vars, hx_vars>>
not_gnn == <<idx_vars, vu_vars, ud_vars, cs_vars, ui_vars, nd_vars, sa_vars,
             grp_vars, dl_vars, fi_vars, wm_vars, hx_vars>>
not_vu == <<idx_vars, gnn_vars, ud_vars, cs_vars, ui_vars, nd_vars, sa_vars,
            grp_vars, dl_vars, fi_vars, wm_vars, hx_vars>>
not_ud == <<idx_vars, gnn_vars, vu_vars, cs_vars, ui_vars, nd_vars, sa_vars,
            grp_vars, dl_vars, fi_vars, wm_vars, hx_vars>>
not_cs == <<idx_vars, gnn_vars, vu_vars, ud_vars, ui_vars, nd_vars, sa_vars,
            grp_vars, dl_vars, fi_vars, wm_vars, hx_vars>>
not_ui == <<idx_vars, gnn_vars, vu_vars, ud_vars, cs_vars, nd_vars, sa_vars,
            grp_vars, dl_vars, fi_vars, wm_vars, hx_vars>>
not_nd == <<idx_vars, gnn_vars, vu_vars, ud_vars, cs_vars, ui_vars, sa_vars,
            grp_vars, dl_vars, fi_vars, wm_vars, hx_vars>>
not_sa == <<idx_vars, gnn_vars, vu_vars, ud_vars, cs_vars, ui_vars, nd_vars,
            grp_vars, dl_vars, fi_vars, wm_vars, hx_vars>>
not_grp == <<idx_vars, gnn_vars, vu_vars, ud_vars, cs_vars, ui_vars, nd_vars,
             sa_vars, dl_vars, fi_vars, wm_vars, hx_vars>>
not_dl == <<idx_vars, gnn_vars, vu_vars, ud_vars, cs_vars, ui_vars, nd_vars,
            sa_vars, grp_vars, fi_vars, wm_vars, hx_vars>>
not_fi == <<idx_vars, gnn_vars, vu_vars, ud_vars, cs_vars, ui_vars, nd_vars,
            sa_vars, grp_vars, dl_vars, wm_vars, hx_vars>>
not_wm == <<idx_vars, gnn_vars, vu_vars, ud_vars, cs_vars, ui_vars, nd_vars,
            sa_vars, grp_vars, dl_vars, fi_vars, hx_vars>>
not_hx == <<idx_vars, gnn_vars, vu_vars, ud_vars, cs_vars, ui_vars, nd_vars,
            sa_vars, grp_vars, dl_vars, fi_vars, wm_vars>>

(***************************************************************************)
(* Bounds of the model                                                     *)
(***************************************************************************)
MaxIdx == 6         \* the multi attribute's indices are 0..MaxIdx
MaxNum == 2         \* names carry the numbers 0..MaxNum (and 9, 10)
MaxExisting == 2    \* existing_names holds at most MaxExisting names
MaxWidth == 3       \* a scene file's number is 1..MaxWidth digits wide
MaxSaves == 2       \* version-ups of one scene file
MaxBase == 1        \* undo chunks open before any wrapped call
MaxCalls == 3       \* calls of wrapped functions
MaxDepth == 2       \* wrapped calls inside one another
MaxCmds == 1        \* host commands a wrapped function issues
MaxUiCalls == 4     \* show_ui calls

(***************************************************************************)
(* Helpers                                                                 *)
(***************************************************************************)
Range(s) == {s[i] : i \in DOMAIN s}

Min(S) == CHOOSE x \in S : \A y \in S : x <= y

\* The elements of a finite set of integers as an ascending list.
RECURSIVE SortedSeq(_)
SortedSeq(S) == IF S = {} THEN <<>> ELSE <<Min(S)>> \o SortedSeq(S \ {Min(S)})

(***************************************************************************)
(* Strings are sequences of one-character strings; the conversions the     *)
(* code uses (int, str, zfill, rstrip(digits), the regular expression      *)
(* [0-9]+$) work on the decimal digits as Python's do.                     *)
(***************************************************************************)
DigitSeq == <<"0", "1", "2", "3", "4", "5", "6", "7", "8", "9">>

Digits == Range(DigitSeq)

DigitVal(c) == (CHOOSE i \in DOMAIN DigitSeq : DigitSeq[i] = c) - 1

DigitChr(n) == DigitSeq[n + 1]

\* s.rstrip(string.digits)
RECURSIVE rstrip_digits(_)
rstrip_digits(s) ==
    IF s # <<>> /\ s[Len(s)] \in Digits
    THEN rstrip_digits(SubSeq(s, 1, Len(s) - 1))
    ELSE s

\* re.search('[0-9]+$', s).group(): the longest run of digits that ends s;
\* the empty sequence stands for no match (None). File and node names hold
\* no line break, the one case where $ matches before the end.
re_search_trailing_digits(s) == SubSeq(s, Len(rstrip_digits(s)) + 1, Len(s))

\* int(ds) of a non-empty run of digits
RECURSIVE int(_)
int(ds) ==
    IF ds = <<>> THEN 0
    ELSE 10 * int(SubSeq(ds, 1, Len(ds) - 1)) + DigitVal(ds[Len(ds)])

\* str(n) of a non-negative integer
RECURSIVE str(_)
str(n) == IF n < 10 THEN <<DigitChr(n)>> ELSE str(n \div 10) \o <<DigitChr(n % 10)>>

\* s.zfill(width): zeros on the left up to width, never a cut
RECURSIVE zfill(_, _)
zfill(s, width) == IF Len(s) >= width THEN s ELSE zfill(<<"0">> \o s, width)

(***************************************************************************)
(* get_next_multi_index                                                    *)
(***************************************************************************)
\* cmds.getAttr(obj_attr, multiIndices=True): the indices in use, ascending;
\* None when there are none. None and the empty list are both falsy, which
\* is all the code asks of them, and both are the empty sequence here.
getAttrMultiIndices(S) == SortedSeq(S)

\* The for loop over enumerate(attr_list), from position count (0-based).
\* Falling off the end of the loop returns None, modelled as -1; a non-empty
\* list never gets there.
RECURSIVE multi_index_scan(_, _)
multi_index_scan(attr_list, count) ==
    IF count >= Len(attr_list) THEN -1
    ELSE IF count # attr_list[count + 1] THEN count
    ELSE IF count + 1 = Len(attr_list) THEN Len(attr_list)
    ELSE multi_index_scan(attr_list, count + 1)

\* Mutant: the number of entries, as the docstring's Returns line has it.
get_next_multi_index_count(attr_list) == Len(attr_list)

\* Mutant: the first gap is looked for from position 1 on.
get_next_multi_index_skip_first(attr_list) ==
    IF Len(attr_list) > 1 THEN multi_index_scan(attr_list, 1)
    ELSE IF attr_list # <<>> THEN multi_index_scan(attr_list, 0) ELSE 0

get_next_multi_index(attr_list) ==
    IF attr_list # <<>> THEN multi_index_scan(attr_list, 0) ELSE 0

\* A call of get_next_multi_index on the attribute, its result kept.
QueryNextIndex ==
    /\ idx_list' = getAttrMultiIndices(multi)
    /\ idx_result' = get_next_multi_index(getAttrMultiIndices(multi))
    /\ UNCHANGED multi
    /\ UNCHANGED not_idx

\* The callers' pattern: index = get_next_multi_index(attr), then
\* connectAttr(..., attr[index]).
ConnectNextIndex ==
    /\ get_next_multi_index(getAttrMultiIndices(multi)) \in (0..MaxIdx) \ multi
    /\ idx_list' = getAttrMultiIndices(multi)
    /\ idx_result' = get_next_multi_index(getAttrMultiIndices(multi))
    /\ multi' = multi \cup {get_next_multi_index(getAttrMultiIndices(multi))}
    /\ UNCHANGED not_idx

\* The host user connects a plug of the multi attribute at an index of
\* their choice, or disconnects one: multi attributes are sparse.
HostConnectIndex(i) ==
    /\ i \notin multi
    /\ multi' = multi \cup {i}
    /\ UNCHANGED <<idx_list, idx_result>>
    /\ UNCHANGED not_idx

HostDisconnectIndex(i) ==
    /\ i \in multi
    /\ multi' = multi \ {i}
    /\ UNCHANGED <<idx_list, idx_result>>
    /\ UNCHANGED not_idx

InitIndex ==
    /\ multi = {}
    /\ idx_list = <<>>
    /\ idx_result = 0

NextIndex ==
    \/ QueryNextIndex
    \/ ConnectNextIndex
    \/ \E i \in 0..MaxIdx : HostConnectIndex(i)
    \/ \E i \in 0..MaxIdx : HostDisconnectIndex(i)

(***************************************************************************)
(* get_next_name                                                           *)
(***************************************************************************)
\* The names of the model: the bare base, the empty name, and the base with
\* a number at every padding. From 9 to 10 str(num) grows by a digit.
NameBase == <<"a">>

NameNums == (0..MaxNum) \cup {9, 10}

\* The default of the argument padding.
DefaultPadding == 2

Paddings == {1, DefaultPadding}

Names ==
    {<<>>, NameBase}
        \cup {NameBase \o zfill(str(n), p) : n \in NameNums, p \in Paddings}

ExistingNames == {E \in SUBSET Names : Cardinality(E) <= MaxExisting}

\* '{0}{1}'.format(name_base, str(num).zfill(padding))
format_name(name_base, num, padding) == name_base \o zfill(str(num), padding)

\* num after lines 70-76: 1, or the number the name ends in.
initial_num(name) ==
    IF re_search_trailing_digits(name) # <<>>
    THEN int(re_search_trailing_digits(name))
    ELSE 1

\* new_name of line 78, the first candidate.
first_candidate(name, padding) ==
    format_name(rstrip_digits(name), initial_num(name), padding)

\* Mutant: the while loop gives up after its first pass.
loop_continues_never(new_name, existing_names) == FALSE

\* The test of the if of line 79 and of the while of line 80.
loop_continues(new_name, existing_names) == new_name \in existing_names

\* Lines 66-79: the assertions hold for a string, a list and an int; the
\* locals are set and the first candidate is tried.
GetNextNameCall(name, existing_names, padding) ==
    /\ gnn_pc = "idle"
    /\ gnn_name' = name
    /\ gnn_existing' = existing_names
    /\ gnn_padding' = padding
    /\ gnn_base' = rstrip_digits(name)
    /\ gnn_num' = initial_num(name)
    /\ gnn_new_name' = first_candidate(name, padding)
    /\ gnn_pc' = IF loop_continues(first_candidate(name, padding), existing_names)
                 THEN "loop" ELSE "done"
    /\ UNCHANGED not_gnn

\* Lines 80-82: one pass of the while loop.
GetNextNameLoop ==
    /\ gnn_pc = "loop"
    /\ loop_continues(gnn_new_name, gnn_existing)
    /\ gnn_new_name' = format_name(gnn_base, gnn_num, gnn_padding)
    /\ gnn_num' = gnn_num + 1
    /\ UNCHANGED <<gnn_pc, gnn_name, gnn_existing, gnn_padding, gnn_base>>
    /\ UNCHANGED not_gnn

\* Line 83: the loop's test fails and new_name is returned.
GetNextNameReturn ==
    /\ gnn_pc = "loop"
    /\ ~loop_continues(gnn_new_name, gnn_existing)
    /\ gnn_pc' = "done"
    /\ UNCHANGED <<gnn_name, gnn_existing, gnn_padding, gnn_base, gnn_num,
                   gnn_new_name>>
    /\ UNCHANGED not_gnn

InitName ==
    /\ gnn_pc = "idle"
    /\ gnn_name = <<>>
    /\ gnn_existing = {}
    /\ gnn_padding = DefaultPadding
    /\ gnn_base = <<>>
    /\ gnn_num = 1
    /\ gnn_new_name = <<>>

NextName ==
    \/ \E name \in Names, existing_names \in ExistingNames, padding \in Paddings :
          GetNextNameCall(name, existing_names, padding)
    \/ GetNextNameLoop
    \/ GetNextNameReturn

(***************************************************************************)
(* version_up_file                                                         *)
(***************************************************************************)
\* s.rfind(c): the last position of c in s (1-based), 0 when there is none.
rfind(s, c) ==
    IF \E i \in DOMAIN s : s[i] = c
    THEN CHOOSE i \in DOMAIN s : s[i] = c /\ \A j \in DOMAIN s : s[j] = c => j <= i
    ELSE 0

RECURSIVE rstrip_slashes(_)
rstrip_slashes(s) ==
    IF s # <<>> /\ s[Len(s)] = "/"
    THEN rstrip_slashes(SubSeq(s, 1, Len(s) - 1))
    ELSE s

\* os.path.dirname, with "/" the separator the host reports paths with.
dirname(p) ==
    LET head == SubSeq(p, 1, rfind(p, "/"))
    IN  IF head # <<>> /\ \E i \in DOMAIN head : head[i] # "/"
        THEN rstrip_slashes(head)
        ELSE head

\* os.path.basename
basename(p) == SubSeq(p, rfind(p, "/") + 1, Len(p))

\* os.path.splitext: the extension starts at the last dot of the last path
\* component, unless only dots come before it.
splitext(p) ==
    LET sepIndex == rfind(p, "/")
        dotIndex == rfind(p, ".")
    IN  IF /\ dotIndex > sepIndex
           /\ \E k \in (sepIndex + 1)..(dotIndex - 1) : p[k] # "."
        THEN [root |-> SubSeq(p, 1, dotIndex - 1), ext |-> SubSeq(p, dotIndex, Len(p))]
        ELSE [root |-> p, ext |-> <<>>]

\* os.path.join of two components
os_join_path(a, b) ==
    IF b # <<>> /\ b[1] = "/" THEN b
    ELSE IF a = <<>> \/ a[Len(a)] = "/" THEN a \o b
    ELSE a \o <<"/">> \o b

\* get_file_path: the host's current scene name.
get_file_path == scene_path

\* get_file_name
get_file_name == basename(get_file_path)

\* Mutant: the next number without its padding.
next_num_unpadded(num_result) == str(int(num_result) + 1)

\* Lines 59-61: the next number, padded to the width of the old one.
next_num(num_result) == zfill(str(int(num_result) + 1), Len(num_result))

\* Lines 53-63 on the current scene: the path to save under, or no path
\* when the file name does not end in digits.
new_file_path ==
    LET dir_path == dirname(get_file_path)
        split == splitext(basename(get_file_name))
        file_name == split.root
        ext == split.ext
        num_result == re_search_trailing_digits(file_name)
        num_padding == Len(num_result)
        new_file_name ==
            SubSeq(file_name, 1, Len(file_name) - num_padding)
                \o next_num(num_result) \o ext
    IN  IF num_result # <<>>
        THEN [path |-> os_join_path(dir_path, new_file_name)]
        ELSE [none |-> TRUE]

\* Mutant: the pop-up is asked for outside the branch that saves.
shows_popup_always(popup_confirmation, target) == popup_confirmation

\* Lines 58 and 66: the pop-up is shown in the saving branch, when asked for.
shows_popup(popup_confirmation, target) ==
    "path" \in DOMAIN target /\ popup_confirmation

\* version_up_file(popup_confirmation), file_save included: rename the scene
\* to the new path and save it; the pop-up is modal and is answered before
\* the call returns.
VersionUpFile(popup_confirmation) ==
    /\ vu_saves < MaxSaves
    /\ vu_op' = "version_up"
    /\ vu_before' = scene_path
    /\ vu_popup_arg' = popup_confirmation
    /\ vu_result' = new_file_path
    /\ vu_popup' = shows_popup(popup_confirmation, new_file_path)
    /\ IF "path" \in DOMAIN new_file_path
       THEN /\ scene_path' = new_file_path.path
            /\ vu_renamed' = TRUE
            /\ vu_written' = [path |-> new_file_path.path]
            /\ vu_warned' = FALSE
            /\ vu_saves' = vu_saves + 1
       ELSE /\ vu_renamed' = FALSE
            /\ vu_written' = [none |-> TRUE]
            /\ vu_warned' = TRUE
            /\ UNCHANGED <<scene_path, vu_saves>>
    /\ UNCHANGED not_vu

\* The scene files of the model: a directory, a prefix that does not end in
\* a digit, a run of digits (or none) and an extension (or none).
SceneDirs == {<<"/">>, <<"/", "p", ".", "1">>}

ScenePrefixes == {<<>>, <<"s">>, <<"s", "1", "_">>}

SceneNums == {0, 8, 9, 98, 99}

SceneDigits == {<<>>} \cup {zfill(str(n), w) : n \in SceneNums, w \in 1..MaxWidth}

SceneExts == {<<>>, <<".", "m", "a">>, <<".", "1">>}

ScenePath(dir, prefix, digits, ext) == os_join_path(dir, prefix \o digits \o ext)

\* A scene file has a name; a new scene has the empty path.
ScenePaths ==
    {<<>>} \cup
    {p \in {ScenePath(dir, prefix, digits, ext) :
                dir \in SceneDirs, prefix \in ScenePrefixes,
                digits \in SceneDigits, ext \in SceneExts} :
        basename(p) # <<>>}

\* The host user opens a scene file, or a new scene; what the last
\* version_up_file call did belongs to the scene that was open then.
OpenScene(p) ==
    /\ scene_path' = p
    /\ vu_saves' = 0
    /\ vu_op' = "open"
    /\ vu_before' = <<>>
    /\ vu_popup_arg' = FALSE
    /\ vu_result' = [none |-> TRUE]
    /\ vu_renamed' = FALSE
    /\ vu_written' = [none |-> TRUE]
    /\ vu_popup' = FALSE
    /\ vu_warned' = FALSE
    /\ UNCHANGED not_vu

InitVersion ==
    /\ scene_path = <<>>
    /\ vu_saves = 0
    /\ vu_op = "none"
    /\ vu_before = <<>>
    /\ vu_popup_arg = FALSE
    /\ vu_result = [none |-> TRUE]
    /\ vu_renamed = FALSE
    /\ vu_written = [none |-> TRUE]
    /\ vu_popup = FALSE
    /\ vu_warned = FALSE

NextVersion ==
    \/ \E popup_confirmation \in BOOLEAN : VersionUpFile(popup_confirmation)
    \/ \E p \in ScenePaths : OpenScene(p)

(***************************************************************************)
(* The undo decorator                                                      *)
(***************************************************************************)
\* What a wrapped function returns: nucleus_constraint_transform gives the
\* constraint's name, or None when createNConstraint made nothing.
WrappedValues == {"nucleusConstraint1", "None"}

\* The host's cmds.undoInfo(openChunk=True) and (closeChunk=True).
openChunk(chunks) == chunks + 1

closeChunk(chunks) == chunks - 1

\* Mutant: the close follows the call instead of standing in a finally.
closes_on_exit_return_only(raised) == ~raised

\* Lines 139-143: the finally clause runs closeChunk on return and on raise.
closes_on_exit(raised) == TRUE

\* Line 141: return func(*args, **kwargs).
wrapper_result(value) == value

TraceCount(kind, id) ==
    Cardinality({i \in DOMAIN ud_trace : ud_trace[i] = <<kind, id>>})

\* The events of the innermost call leaving _undofunc: the close of the
\* finally clause, then the return or the raise.
ExitEvents(id, raised) ==
    (IF closes_on_exit(raised) THEN << <<"close", id>> >> ELSE <<>>)
        \o << <<IF raised THEN "raise" ELSE "return", id>> >>

\* _undofunc is called, from the top level or from inside a wrapped
\* function: line 140 opens a chunk and line 141 enters func.
UndoCall ==
    /\ ~ud_exc
    /\ ud_calls < MaxCalls
    /\ Len(ud_stack) < MaxDepth
    /\ ud_calls' = ud_calls + 1
    /\ ud_chunks' = openChunk(ud_chunks)
    /\ ud_stack' = Append(ud_stack, ud_calls + 1)
    /\ ud_trace' = Append(ud_trace, <<"open", ud_calls + 1>>)
    /\ UNCHANGED <<ud_base, ud_exc, ud_func_ret, ud_ret>>
    /\ UNCHANGED not_ud

\* The innermost wrapped function issues a host command (mel.eval,
\* cmds.parent, cmds.rename).
WrappedCommand ==
    /\ ~ud_exc
    /\ ud_stack # <<>>
    /\ TraceCount("cmd", ud_stack[Len(ud_stack)]) < MaxCmds
    /\ ud_trace' = Append(ud_trace, <<"cmd", ud_stack[Len(ud_stack)]>>)
    /\ UNCHANGED <<ud_base, ud_chunks, ud_stack, ud_calls, ud_exc, ud_func_ret,
                   ud_ret>>
    /\ UNCHANGED not_ud

\* The innermost wrapped function returns value: the finally clause runs and
\* _undofunc returns.
WrappedReturn(value) ==
    /\ ~ud_exc
    /\ ud_stack # <<>>
    /\ ud_chunks' = IF closes_on_exit(FALSE) THEN closeChunk(ud_chunks)
                    ELSE ud_chunks
    /\ ud_trace' = ud_trace \o ExitEvents(ud_stack[Len(ud_stack)], FALSE)
    /\ ud_stack' = SubSeq(ud_stack, 1, Len(ud_stack) - 1)
    /\ ud_func_ret' = value
    /\ ud_ret' = wrapper_result(value)
    /\ UNCHANGED <<ud_base, ud_calls, ud_exc>>
    /\ UNCHANGED not_ud

\* The innermost wrapped function raises, or an exception of a call it made
\* passes through it (no wrapped function catches): the finally clause runs
\* and the exception leaves _undofunc, into the caller if there is one.
WrappedRaise ==
    /\ ud_stack # <<>>
    /\ ud_chunks' = IF closes_on_exit(TRUE) THEN closeChunk(ud_chunks)
                    ELSE ud_chunks
    /\ ud_trace' = ud_trace \o ExitEvents(ud_stack[Len(ud_stack)], TRUE)
    /\ ud_stack' = SubSeq(ud_stack, 1, Len(ud_stack) - 1)
    /\ ud_exc' = (Len(ud_stack) > 1)
    /\ ud_func_ret' = "raised"
    /\ ud_ret' = "raised"
    /\ UNCHANGED <<ud_base, ud_calls>>
    /\ UNCHANGED not_ud

\* Before any wrapped call, a caller outside the library opens a chunk of
\* its own.
HostOpenChunk ==
    /\ ud_calls = 0
    /\ ud_base < MaxBase
    /\ ud_base' = ud_base + 1
    /\ ud_chunks' = openChunk(ud_chunks)
    /\ UNCHANGED <<ud_stack, ud_calls, ud_exc, ud_trace, ud_func_ret, ud_ret>>
    /\ UNCHANGED not_ud

InitUndo ==
    /\ ud_base = 0
    /\ ud_chunks = ud_base
    /\ ud_stack = <<>>
    /\ ud_calls = 0
    /\ ud_exc = FALSE
    /\ ud_trace = <<>>
    /\ ud_func_ret = "None"
    /\ ud_ret = "None"

NextUndo ==
    \/ HostOpenChunk
    \/ UndoCall
    \/ WrappedCommand
    \/ \E value \in WrappedValues : WrappedReturn(value)
    \/ WrappedRaise

(***************************************************************************)
(* cache_sim                                                               *)
(***************************************************************************)
CacheNodes == {"nCloth1", "hairSystem1"}

\* The types a caller may pass as start_frame and end_frame.
FrameTypes == {"int", "float", "str"}

CacheExts == {"mcx", "mcc", "abc"}

CacheArgs ==
    [start_frame : FrameTypes, end_frame : FrameTypes,
     nodes : SUBSET CacheNodes, cache_file_ext : CacheExts]

\* Mutant: the file extension is not checked.
preconditions_hold_no_ext(args, scene) ==
    /\ args.start_frame \in {"int", "float"}
    /\ args.end_frame \in {"int", "float"}
    /\ args.nodes # {} /\ args.nodes \subseteq scene

\* The three assertions of lines 1160-1164.
preconditions_hold(args, scene) ==
    /\ args.start_frame \in {"int", "float"}
    /\ args.end_frame \in {"int", "float"}
    /\ args.nodes # {} /\ args.nodes \subseteq scene
    /\ args.cache_file_ext \in {"mcx", "mcc"}

\* cache_sim(...). A failed assertion ends the call at once. Otherwise the
\* selection is stored, the nodes are selected, the two commands go to
\* mel.eval in one string (deleteCacheFile deletes the selected nodes'
\* caches, doCreateNclothCache writes new ones) and the stored selection is
\* selected again. mel.eval may raise, and then the call ends with the nodes
\* still selected. cmds.select of an empty list either clears the selection
\* or leaves it, as the host decides.
CacheSim(args) ==
    /\ cs_args' = args
    /\ UNCHANGED cs_scene
    /\ IF ~preconditions_hold(args, cs_scene)
       THEN /\ cs_result' = "AssertionError"
            /\ cs_selects' = 0
            /\ cs_mel' = <<>>
            /\ cs_deleted' = {}
            /\ UNCHANGED <<selection, cs_cached>>
       ELSE /\ cs_mel' = <<"deleteCacheFile", "doCreateNclothCache">>
            /\ cs_deleted' = cs_cached \cap args.nodes
            /\ \/ /\ cs_result' = "RuntimeError"
                  /\ cs_selects' = 1
                  /\ cs_cached' = cs_cached \ args.nodes
                  /\ selection' = args.nodes
               \/ /\ cs_result' = "ok"
                  /\ cs_selects' = 2
                  /\ cs_cached' = cs_cached \cup args.nodes
                  /\ selection' \in (IF selection = {} THEN {{}, args.nodes}
                                     ELSE {selection})
    /\ UNCHANGED not_cs

\* The host user creates or deletes a node, or changes the selection.
CacheHostCreate(n) ==
    /\ n \notin cs_scene
    /\ cs_scene' = cs_scene \cup {n}
    /\ cs_result' = "host"
    /\ UNCHANGED <<selection, cs_cached, cs_args, cs_selects, cs_mel, cs_deleted>>
    /\ UNCHANGED not_cs

CacheHostDelete(n) ==
    /\ n \in cs_scene
    /\ cs_scene' = cs_scene \ {n}
    /\ selection' = selection \ {n}
    /\ cs_cached' = cs_cached \ {n}
    /\ cs_result' = "host"
    /\ UNCHANGED <<cs_args, cs_selects, cs_mel, cs_deleted>>
    /\ UNCHANGED not_cs

CacheHostSelect(S) ==
    /\ S \subseteq cs_scene
    /\ S # selection
    /\ selection' = S
    /\ cs_result' = "host"
    /\ UNCHANGED <<cs_scene, cs_cached, cs_args, cs_selects, cs_mel, cs_deleted>>
    /\ UNCHANGED not_cs

InitCache ==
    /\ cs_scene = {}
    /\ selection = {}
    /\ cs_cached = {}
    /\ cs_args = [start_frame |-> "int", end_frame |-> "int", nodes |-> {},
                  cache_file_ext |-> "mcx"]
    /\ cs_result = "none"
    /\ cs_selects = 0
    /\ cs_mel = <<>>
    /\ cs_deleted = {}

NextCache ==
    \/ \E args \in CacheArgs : CacheSim(args)
    \/ \E n \in CacheNodes : CacheHostCreate(n)
    \/ \E n \in CacheNodes : CacheHostDelete(n)
    \/ \E S \in SUBSET CacheNodes : CacheHostSelect(S)

(***************************************************************************)
(* show_ui                                                                 *)
(***************************************************************************)
\* Two window classes: TemplateUI's parent defaults to the main host window
\* (template.py, line 35), FilePicker's to None (generic_ui.py, line 315).
UiClasses == {"TemplateUI", "FilePicker"}

default_parent_is_main(class_name) == class_name = "TemplateUI"

\* How the exec of line 110 ends: the window is made and shown; the class's
\* __init__ raises after the toolkit's __init__ made the widget (TemplateUI's
\* does, at its line 54); or the import fails and no widget is made.
UiOutcomes == {"shown", "init_raised", "import_failed"}

\* Mutant: the loop stops at the first child it looks at.
windows_found_first_only(wins, class_name) ==
    LET first == CHOOSE w \in wins : \A v \in wins : w.id <= v.id
    IN  IF wins # {} /\ first.child /\ first.cls = class_name
        THEN {first} ELSE {}

\* Lines 105-106: the children of the main window whose class has the name.
windows_found(wins, class_name) ==
    {w \in wins : w.child /\ w.cls = class_name}

\* Lines 107-108: win.hide(), win.deleteLater().
retire(w) == [w EXCEPT !.shown = FALSE, !.doomed = TRUE]

\* show_ui(path, class_name)
ShowUi(class_name, outcome) ==
    LET found == windows_found(ui_wins, class_name)
        kept == (ui_wins \ found) \cup {retire(w) : w \in found}
        win == [id |-> ui_next_id, cls |-> class_name,
                child |-> default_parent_is_main(class_name),
                shown |-> (outcome = "shown"), doomed |-> FALSE]
        \* A widget with no parent whose __init__ raised is collected.
        made == /\ outcome # "import_failed"
                /\ (outcome = "shown" \/ default_parent_is_main(class_name))
    IN  /\ ui_calls < MaxUiCalls
        /\ ui_calls' = ui_calls + 1
        /\ ui_wins' = IF made THEN kept \cup {win} ELSE kept
        /\ ui_next_id' = IF made THEN ui_next_id + 1 ELSE ui_next_id
        /\ ui_last' = [cls |-> class_name, outcome |-> outcome,
                       found |-> {w.id : w \in found}]
        /\ UNCHANGED not_ui

\* The user closes a window: it is hidden, not deleted.
UserClose(w) ==
    /\ w \in ui_wins
    /\ w.shown
    /\ ui_wins' = (ui_wins \ {w}) \cup {[w EXCEPT !.shown = FALSE]}
    /\ UNCHANGED <<ui_next_id, ui_calls, ui_last>>
    /\ UNCHANGED not_ui

\* Control is back in the host's event loop: the windows that deleteLater
\* scheduled are deleted.
EventLoop ==
    /\ \E w \in ui_wins : w.doomed
    /\ ui_wins' = {w \in ui_wins : ~w.doomed}
    /\ UNCHANGED <<ui_next_id, ui_calls, ui_last>>
    /\ UNCHANGED not_ui

InitUi ==
    /\ ui_wins = {}
    /\ ui_next_id = 1
    /\ ui_calls = 0
    /\ ui_last = [cls |-> "none", outcome |-> "none", found |-> {}]

NextUi ==
    \/ \E class_name \in UiClasses, outcome \in UiOutcomes :
          ShowUi(class_name, outcome)
    \/ \E w \in ui_wins : UserClose(w)
    \/ EventLoop

(***************************************************************************)
(* The Node wrapper                                                        *)
(***************************************************************************)
NodeNames == {"pCube1", "grp1"}

\* Python's None as a handle; no node has this name.
None == "<None>"

\* What set_node may be given: a node name, the empty string, or something
\* that is not a string.
NotAString == "<not a string>"

\* Line 49 (and line 62): self.node and cmds.objExists(self.node).
handle_found(handle, scene) ==
    /\ handle # None
    /\ handle # ""
    /\ handle \in scene

\* Mutant: the handle is kept when the node is not found.
handle_after_exists_kept(handle, found) == handle

\* Lines 49-54: the handle survives a True and is cleared by a False.
handle_after_exists(handle, found) == IF found THEN handle ELSE None

\* Node.set_node(node)
NodeSetNode(node) ==
    /\ nd_op' = "set_node"
    /\ IF node # NotAString
       THEN /\ nd_handle' = node
            /\ nd_result' = "ok"
       ELSE /\ nd_result' = "AssertionError"
            /\ UNCHANGED nd_handle
    /\ UNCHANGED <<nd_scene, nd_cleared>>
    /\ UNCHANGED not_nd

\* Node.exists()
NodeExists ==
    /\ nd_op' = "exists"
    /\ nd_result' = IF handle_found(nd_handle, nd_scene) THEN "True" ELSE "False"
    /\ nd_handle' = handle_after_exists(nd_handle, handle_found(nd_handle, nd_scene))
    /\ nd_cleared' = IF handle_found(nd_handle, nd_scene) \/ nd_handle = None
                     THEN nd_cleared ELSE nd_handle
    /\ UNCHANGED nd_scene
    /\ UNCHANGED not_nd

\* Node.delete()
NodeDelete ==
    /\ nd_op' = "delete"
    /\ IF handle_found(nd_handle, nd_scene)
       THEN /\ nd_scene' = nd_scene \ {nd_handle}
            /\ nd_result' = "True"
       ELSE /\ nd_result' = "False"
            /\ UNCHANGED nd_scene
    /\ UNCHANGED <<nd_handle, nd_cleared>>
    /\ UNCHANGED not_nd

\* The methods that start with assert self.exists() and then only read the
\* scene or change what the model does not hold (visibility, locks).
AssertingMethods == {"full_path", "short_name", "hide"}

NodeMethod(method) ==
    /\ nd_op' = method
    /\ nd_result' = IF handle_found(nd_handle, nd_scene) THEN "ok"
                    ELSE "AssertionError"
    /\ nd_handle' = handle_after_exists(nd_handle, handle_found(nd_handle, nd_scene))
    /\ nd_cleared' = IF handle_found(nd_handle, nd_scene) \/ nd_handle = None
                     THEN nd_cleared ELSE nd_handle
    /\ UNCHANGED nd_scene
    /\ UNCHANGED not_nd

\* The host user creates or deletes a node.
NodeHostCreate(n) ==
    /\ n \notin nd_scene
    /\ nd_scene' = nd_scene \cup {n}
    /\ nd_op' = "host"
    /\ UNCHANGED <<nd_handle, nd_result, nd_cleared>>
    /\ UNCHANGED not_nd

NodeHostDelete(n) ==
    /\ n \in nd_scene
    /\ nd_scene' = nd_scene \ {n}
    /\ nd_op' = "host"
    /\ UNCHANGED <<nd_handle, nd_result, nd_cleared>>
    /\ UNCHANGED not_nd

\* After Node("pCube1") in an empty scene: __init__ sets the handle through
\* set_node.
InitNode ==
    /\ nd_scene = {}
    /\ nd_handle = "pCube1"
    /\ nd_op = "init"
    /\ nd_result = "ok"
    /\ nd_cleared = None

NextNode ==
    \/ \E node \in NodeNames \cup {"", NotAString} : NodeSetNode(node)
    \/ NodeExists
    \/ NodeDelete
    \/ \E method \in AssertingMethods : NodeMethod(method)
    \/ \E n \in NodeNames : NodeHostCreate(n)
    \/ \E n \in NodeNames : NodeHostDelete(n)

(***************************************************************************)
(* Node.attr_str and Node.set_attr                                         *)
(*                                                                         *)
(* A name with periods in it is the sequence of its parts, so that         *)
(* '.'.join((a, b)) is a \o b: 'pCube1.tx' is <<"pCube1", "tx">>, the      *)
(* empty string is <<"">>.  Every node of the model is a transform with    *)
(* the compound attribute t and its child tx, which the host knows as      *)
(* 'node.tx' and as 'node.t.tx'.                                           *)
(***************************************************************************)
SetAttrNodes == {"pCube1", "t"}

\* The attribute paths of a node that hold one number.
AttrPaths == {<<"tx">>, <<"t", "tx">>}

\* What set_attr may be given as attribute: a name, a path, a name no node
\* has, the empty string.
SetAttrAttributes == AttrPaths \cup {<<"zz">>, <<"">>}

AttrValues == {0, 1}

\* Python's None where a name is expected.
NoName == <<>>

\* '.'.join((node, attribute)), line 96.
join_period(node, attribute) == <<node>> \o attribute

\* cmds.objExists(name) for a node name or a plug name.
objExists(name, scene) ==
    /\ name # NoName
    /\ name[1] \in scene
    /\ Len(name) > 1 => Tail(name) \in AttrPaths

\* Lines 96-98 of attr_str, after its assert: the plug's name when the
\* attribute is not empty and the plug exists, None otherwise.
attr_str(node, attribute, scene) ==
    IF attribute # <<"">> /\ objExists(join_period(node, attribute), scene)
    THEN join_period(node, attribute)
    ELSE NoName

\* The first argument of cmds.setAttr at line 115.
setAttr_argument(node, attribute) == attribute

\* The node whose tx the host's setAttr writes when it is given this name,
\* or None when the name is no plug (the command raises RuntimeError).
setAttr_target(plug, scene) ==
    IF Len(plug) > 1 /\ objExists(plug, scene) THEN plug[1] ELSE None

\* Node(node): __init__ sets the handle through set_node.
SetAttrNewNode(node) ==
    /\ sa_handle' = node
    /\ sa_op' = "new"
    /\ UNCHANGED <<sa_scene, sa_values, sa_attr, sa_issued, sa_outcome,
                   sa_result>>
    /\ UNCHANGED not_sa

\* Node.set_attr(attribute, value).  objExists_None is what the host's
\* objExists does when line 112 hands it None: it raises TypeError or
\* answers False.
SetAttr(attribute, value, objExists_None) ==
    LET found == handle_found(sa_handle, sa_scene)
        name == attr_str(sa_handle, attribute, sa_scene)
        plug == setAttr_argument(sa_handle, attribute)
        target == setAttr_target(plug, sa_scene)
    IN  /\ sa_op' = "set_attr"
        /\ sa_attr' = attribute
        /\ sa_handle' = handle_after_exists(sa_handle, found)
        /\ UNCHANGED sa_scene
        /\ IF ~found
           THEN \* line 110: the assert fails
                /\ sa_outcome' = "AssertionError"
                /\ sa_result' = NoName
                /\ sa_issued' = NoName
                /\ UNCHANGED sa_values
           ELSE IF name = NoName
           THEN \* line 112 with name None
                /\ sa_outcome' = IF objExists_None = "raises"
                                 THEN "TypeError" ELSE "returned"
                /\ sa_result' = NoName
                /\ sa_issued' = NoName
                /\ UNCHANGED sa_values
           ELSE \* lines 113-118
                /\ sa_issued' = plug
                /\ sa_outcome' = "returned"
                /\ IF target # None
                   THEN /\ sa_values' = [sa_values EXCEPT ![target] = value]
                        /\ sa_result' = name
                   ELSE \* RuntimeError, caught and logged
                        /\ UNCHANGED sa_values
                        /\ sa_result' = NoName
        /\ UNCHANGED not_sa

\* The host user creates a node (its tx is 0) or deletes one.
SetAttrHostCreate(n) ==
    /\ n \notin sa_scene
    /\ sa_scene' = sa_scene \cup {n}
    /\ sa_values' = [sa_values EXCEPT ![n] = 0]
    /\ sa_op' = "host"
    /\ UNCHANGED <<sa_handle, sa_attr, sa_issued, sa_outcome, sa_result>>
    /\ UNCHANGED not_sa

SetAttrHostDelete(n) ==
    /\ n \in sa_scene
    /\ sa_scene' = sa_scene \ {n}
    /\ sa_values' = [sa_values EXCEPT ![n] = 0]
    /\ sa_op' = "host"
    /\ UNCHANGED <<sa_handle, sa_attr, sa_issued, sa_outcome, sa_result>>
    /\ UNCHANGED not_sa

\* After Node("pCube1") in an empty scene.
InitSetAttr ==
    /\ sa_scene = {}
    /\ sa_values = [n \in SetAttrNodes |-> 0]
    /\ sa_handle = "pCube1"
    /\ sa_op = "init"
    /\ sa_attr = NoName
    /\ sa_issued = NoName
    /\ sa_outcome = "returned"
    /\ sa_result = NoName

NextSetAttr ==
    \/ \E node \in SetAttrNodes : SetAttrNewNode(node)
    \/ \E attribute \in SetAttrAttributes, value \in AttrValues,
          objExists_None \in {"raises", "False"} :
            SetAttr(attribute, value, objExists_None)
    \/ \E n \in SetAttrNodes : SetAttrHostCreate(n)
    \/ \E n \in SetAttrNodes : SetAttrHostDelete(n)

(***************************************************************************)
(* Group.create                                                            *)
(*                                                                         *)
(* The host's hierarchy is a function from names to parents.  The names    *)
(* are those of Cloth.create_dynamics_hierarchy: two groups, the system    *)
(* group they are put under, and a mesh to group.  A list of nodes is the  *)
(* set of its elements; None and the empty list are both the empty set,    *)
(* as the code only asks whether the list is true.                         *)
(***************************************************************************)
GroupNames == {"nRigids_grp", "constraints_grp"}

system_group_name == "sys_grp"

GroupMembers == {"mesh1"}

GroupUniverse == GroupNames \cup {system_group_name} \cup GroupMembers

World == "<world>"

Absent == "<absent>"

\* The values of the arguments nodes and parent; "" stands for None.
GroupNodesArgs == {{}, GroupMembers}

GroupParentArgs == {"", system_group_name}

\* cmds.objExists(name) in the hierarchy.
node_exists(tree, name) == name \in DOMAIN tree /\ tree[name] # Absent

children_of(tree, name) == {n \in DOMAIN tree : tree[n] = name}

\* The node and everything below it.
RECURSIVE descendants(_, _)
descendants(tree, name) ==
    {name} \cup UNION {descendants(tree, c) : c \in children_of(tree, name)}

\* Lines 51-66: the one cmds.group call create() makes for a name that does
\* not exist, by the truth of nodes and parent.
group_command(obj) ==
    [name |-> obj.name,
     members |-> obj.nodes,
     parent |-> IF obj.parent # "" THEN obj.parent ELSE World,
     empty |-> obj.nodes = {}]

\* Whether the host carries the command out: the parent and the members
\* must exist; otherwise cmds.group raises RuntimeError.
group_succeeds(tree, cmd) ==
    /\ cmd.parent # World => node_exists(tree, cmd.parent)
    /\ \A n \in cmd.members : node_exists(tree, n)
    /\ cmd.parent \notin cmd.members

\* The hierarchy after the command: the new group under its parent, the
\* members under the new group.
group_effect(tree, cmd) ==
    [n \in DOMAIN tree |->
        IF n = cmd.name THEN cmd.parent
        ELSE IF n \in cmd.members THEN cmd.name
        ELSE tree[n]]

\* Line 50 and line 70: the commands create() issues.
commands_issued(tree, obj) ==
    IF ~node_exists(tree, obj.name) THEN <<group_command(obj)>> ELSE <<>>

\* Group(name, nodes, parent, lock, visibility): Node.__init__ sets the
\* handle, the rest is stored.
GroupNew(name, nodes, parent, lock, visibility) ==
    /\ grp_obj' = [name |-> name, node |-> name, nodes |-> nodes,
                   parent |-> parent, lock_attrs |-> lock,
                   viz |-> visibility]
    /\ grp_op' = "new"
    /\ grp_issued' = <<>>
    /\ grp_result' = "ok"
    /\ UNCHANGED <<grp_tree, grp_locked, grp_hidden>>
    /\ UNCHANGED not_grp

\* Node.exists() on the Group object (inherited).
GroupExists ==
    LET found == handle_found(grp_obj.node, {n \in GroupUniverse :
                                              node_exists(grp_tree, n)})
    IN  /\ grp_obj' = [grp_obj EXCEPT
                          !.node = handle_after_exists(grp_obj.node, found)]
        /\ grp_op' = "exists"
        /\ grp_issued' = <<>>
        /\ grp_result' = IF found THEN "True" ELSE "False"
        /\ UNCHANGED <<grp_tree, grp_locked, grp_hidden>>
        /\ UNCHANGED not_grp

\* Group.create()
GroupCreate ==
    LET issued == commands_issued(grp_tree, grp_obj)
        made == issued # <<>> /\ group_succeeds(grp_tree, issued[1])
        raised == issued # <<>> /\ ~made
        tree == IF made THEN group_effect(grp_tree, issued[1]) ELSE grp_tree
        \* lines 72-78: lock() and hide() each start with
        \* assert self.exists(), which reads the handle, not self.name
        scene == {n \in GroupUniverse : node_exists(tree, n)}
        asserts == grp_obj.lock_attrs \/ ~grp_obj.viz
        found == handle_found(grp_obj.node, scene)
    IN  /\ grp_op' = "create"
        /\ grp_issued' = issued
        /\ grp_tree' = tree
        /\ IF raised
           THEN /\ grp_result' = "RuntimeError"
                /\ UNCHANGED <<grp_obj, grp_locked, grp_hidden>>
           ELSE IF asserts /\ ~found
           THEN /\ grp_result' = "AssertionError"
                /\ grp_obj' = [grp_obj EXCEPT !.node = None]
                /\ UNCHANGED <<grp_locked, grp_hidden>>
           ELSE /\ grp_result' = grp_obj.name
                /\ grp_locked' = IF grp_obj.lock_attrs
                                 THEN grp_locked \cup {grp_obj.node}
                                 ELSE grp_locked
                /\ grp_hidden' = IF ~grp_obj.viz
                                 THEN grp_hidden \cup {grp_obj.node}
                                 ELSE grp_hidden
                /\ UNCHANGED grp_obj
        /\ UNCHANGED not_grp

\* The host user creates a node in world space or under the system group,
\* or deletes a node with everything below it (the record of the last call
\* is dropped).
GroupHostCreate(n, p) ==
    /\ ~node_exists(grp_tree, n)
    /\ p # World => (node_exists(grp_tree, p) /\ p # n)
    /\ grp_tree' = [grp_tree EXCEPT ![n] = p]
    /\ grp_op' = "host"
    /\ grp_issued' = <<>>
    /\ grp_result' = "ok"
    /\ UNCHANGED <<grp_locked, grp_hidden, grp_obj>>
    /\ UNCHANGED not_grp

GroupHostDelete(n) ==
    /\ node_exists(grp_tree, n)
    /\ grp_tree' = [m \in DOMAIN grp_tree |->
                        IF m \in descendants(grp_tree, n) THEN Absent
                        ELSE grp_tree[m]]
    /\ grp_locked' = grp_locked \ descendants(grp_tree, n)
    /\ grp_hidden' = grp_hidden \ descendants(grp_tree, n)
    /\ grp_op' = "host"
    /\ grp_issued' = <<>>
    /\ grp_result' = "ok"
    /\ UNCHANGED grp_obj
    /\ UNCHANGED not_grp

\* After Group("nRigids_grp") in an empty scene, with the defaults of
\* __init__: no nodes, no parent, lock=True, visibility=True.
InitGroup ==
    /\ grp_tree = [n \in GroupUniverse |-> Absent]
    /\ grp_locked = {}
    /\ grp_hidden = {}
    /\ grp_obj = [name |-> "nRigids_grp", node |-> "nRigids_grp",
                  nodes |-> {}, parent |-> "", lock_attrs |-> TRUE,
                  viz |-> TRUE]
    /\ grp_op = "init"
    /\ grp_issued = <<>>
    /\ grp_result = "ok"

NextGroup ==
    \/ \E name \in GroupNames, nodes \in GroupNodesArgs,
          parent \in GroupParentArgs, lock \in BOOLEAN,
          visibility \in BOOLEAN :
            GroupNew(name, nodes, parent, lock, visibility)
    \/ GroupExists
    \/ GroupCreate
    \/ \E n \in GroupUniverse, p \in {World, system_group_name} :
            GroupHostCreate(n, p)
    \/ \E n \in GroupUniverse : GroupHostDelete(n)

(***************************************************************************)
(* maya_utils.display_layer                                                *)
(*                                                                         *)
(* In the host every object is in exactly one display layer (defaultLayer  *)
(* until it is put into another), and a name is carried by one node only,  *)
(* layer or not.                                                           *)
(***************************************************************************)
LayerNames == {"sim_LYR", "rest_LYR"}

LayerObjects == {"mesh1", "mesh2"}

defaultLayer == "defaultLayer"

\* The values of the arguments obj and color; "" is an empty obj, "None" no
\* colour.
LayerObjArgs == LayerObjects \cup {""}

LayerColors == {"None", "rgb"}

\* cmds.objExists(name) for any kind of node.
layer_objExists(name, objs, others, layers) ==
    name \in objs \cup others \cup layers

\* Mutant: the object is never added to a layer that exists.
edits_members_never(obj, objs) == FALSE

\* Line 205: obj and cmds.objExists(obj).
edits_members(obj, objs) == obj # "" /\ obj \in objs

\* Lines 214-217: the three setAttr calls on layer_name when color is true.
sets_color(color) == color # "None"

\* display_layer(obj, layer_name, color, visibility).  create_without_obj
\* is what the host's createDisplayLayer does when obj names nothing: it
\* raises RuntimeError, or it makes the layer empty.  The host's
\* editDisplayLayerMembers and setAttr raise RuntimeError when layer_name
\* is not a layer.
DisplayLayer(obj, layer_name, color, visibility, create_without_obj) ==
    LET exists == layer_objExists(layer_name, dl_objs, dl_others, dl_layers)
        is_layer == layer_name \in dl_layers
        create_raises ==
            ~exists /\ obj \notin dl_objs /\ create_without_obj = "raises"
        edit == exists /\ edits_members(obj, dl_objs)
        edit_raises == edit /\ ~is_layer
        color_raises ==
            exists /\ ~edit /\ sets_color(color) /\ ~is_layer
        raised == create_raises \/ edit_raises \/ color_raises
    IN  /\ dl_op' = "display_layer"
        /\ dl_args' = [obj |-> obj, layer_name |-> layer_name,
                       color |-> color, visibility |-> visibility]
        /\ dl_created' = (~exists)
        /\ UNCHANGED <<dl_objs, dl_others>>
        /\ IF raised
           THEN /\ dl_result' = "RuntimeError"
                /\ UNCHANGED <<dl_layers, dl_member, dl_visible, dl_colored>>
           ELSE /\ dl_result' = layer_name
                /\ dl_layers' = IF exists THEN dl_layers
                                ELSE dl_layers \cup {layer_name}
                /\ dl_member' =
                        IF (~exists /\ obj \in dl_objs) \/ edit
                        THEN [dl_member EXCEPT ![obj] = layer_name]
                        ELSE dl_member
                /\ dl_visible' =
                        IF exists THEN dl_visible
                        ELSE IF visibility
                        THEN dl_visible \cup {layer_name}
                        ELSE dl_visible \ {layer_name}
                /\ dl_colored' =
                        IF sets_color(color)
                        THEN dl_colored \cup {layer_name}
                        ELSE dl_colored
        /\ UNCHANGED not_dl

\* The host user creates or deletes an object, a layer with its members
\* (they go back to defaultLayer), or a node of another kind that carries a
\* layer's name.  The record of the last call is dropped.
LayerHostStep ==
    /\ dl_op' = "host"
    /\ dl_args' = [obj |-> "", layer_name |-> "", color |-> "None",
                   visibility |-> TRUE]
    /\ dl_created' = FALSE
    /\ dl_result' = "ok"

LayerHostCreateObject(n) ==
    /\ n \notin dl_objs
    /\ dl_objs' = dl_objs \cup {n}
    /\ dl_member' = [dl_member EXCEPT ![n] = defaultLayer]
    /\ LayerHostStep
    /\ UNCHANGED <<dl_others, dl_layers, dl_visible, dl_colored>>
    /\ UNCHANGED not_dl

LayerHostDeleteObject(n) ==
    /\ n \in dl_objs
    /\ dl_objs' = dl_objs \ {n}
    /\ dl_member' = [dl_member EXCEPT ![n] = defaultLayer]
    /\ LayerHostStep
    /\ UNCHANGED <<dl_others, dl_layers, dl_visible, dl_colored>>
    /\ UNCHANGED not_dl

LayerHostDeleteLayer(l) ==
    /\ l \in dl_layers
    /\ dl_layers' = dl_layers \ {l}
    /\ dl_member' = [n \in LayerObjects |->
                        IF dl_member[n] = l THEN defaultLayer
                        ELSE dl_member[n]]
    /\ dl_visible' = dl_visible \ {l}
    /\ dl_colored' = dl_colored \ {l}
    /\ LayerHostStep
    /\ UNCHANGED <<dl_objs, dl_others>>
    /\ UNCHANGED not_dl

LayerHostCreateOther(l) ==
    /\ l \notin dl_layers \cup dl_others
    /\ dl_others' = dl_others \cup {l}
    /\ LayerHostStep
    /\ UNCHANGED <<dl_objs, dl_layers, dl_member, dl_visible, dl_colored>>
    /\ UNCHANGED not_dl

LayerHostDeleteOther(l) ==
    /\ l \in dl_others
    /\ dl_others' = dl_others \ {l}
    /\ LayerHostStep
    /\ UNCHANGED <<dl_objs, dl_layers, dl_member, dl_visible, dl_colored>>
    /\ UNCHANGED not_dl

\* A scene with no object and no layer but defaultLayer.
InitLayer ==
    /\ dl_objs = {}
    /\ dl_others = {}
    /\ dl_layers = {}
    /\ dl_member = [n \in LayerObjects |-> defaultLayer]
    /\ dl_visible = {}
    /\ dl_colored = {}
    /\ dl_op = "init"
    /\ dl_args = [obj |-> "", layer_name |-> "", color |-> "None",
                  visibility |-> TRUE]
    /\ dl_created = FALSE
    /\ dl_result = "ok"

NextLayer ==
    \/ \E obj \in LayerObjArgs, layer_name \in LayerNames,
          color \in LayerColors, visibility \in BOOLEAN,
          create_without_obj \in {"raises", "empty"} :
            DisplayLayer(obj, layer_name, color, visibility,
                         create_without_obj)
    \/ \E n \in LayerObjects : LayerHostCreateObject(n)
    \/ \E n \in LayerObjects : LayerHostDeleteObject(n)
    \/ \E l \in LayerNames : LayerHostDeleteLayer(l)
    \/ \E l \in LayerNames : LayerHostCreateOther(l)
    \/ \E l \in LayerNames : LayerHostDeleteOther(l)

(***************************************************************************)
(* file_import                                                             *)
(*                                                                         *)
(* A list the host returns is the set of its names.  What a file holds is  *)
(* not modelled: an import brings in any top-level nodes and any display   *)
(* layers whose names the scene does not hold yet.                         *)
(***************************************************************************)
ImportFiles == {"rig.ma"}

ImportNodes == {"rig_grp", "geo", "imported1"}

ImportLayers == {"layerA", "importedLayer"}

\* The values of the argument parent ("" for None) and namespace.
ImportParentArgs == {"", "rig_grp", "imported1"}

ImportNamespaces == {"", "ns"}

\* cmds.ls(assemblies=True)
ls_assemblies(tree) == {n \in DOMAIN tree : tree[n] = World}

\* cmds.ls(type='displayLayer')
ls_displayLayers(layers) == layers \cup {defaultLayer}

\* Mutant: everything in the scene after the import counts as imported.
list_difference_all(post, pre) == post

\* Lines 251-252: list(set(post) - set(pre)).
list_difference(post, pre) == post \ pre

NoCommand == [issued |-> FALSE, objs |-> {}]

NoImportArgs == [file_name |-> "", parent |-> "", namespace |-> "",
                 delete_layers |-> FALSE]

\* file_import(file_name, parent, namespace, delete_layers).  new_objs and
\* new_layers are what the file brings in; empty_list is what the host's
\* parent and delete commands do with an empty list: they raise
\* RuntimeError or do nothing.  cmds.parent also raises when the parent is
\* among the nodes to parent.
FileImport(file_name, parent, namespace, delete_layers, new_objs, new_layers, empty_list) ==
    LET pre_layers == ls_displayLayers(fi_layers)
        pre_objs == ls_assemblies(fi_tree)
        tree1 == [n \in ImportNodes |->
                    IF n \in new_objs THEN World ELSE fi_tree[n]]
        layers1 == fi_layers \cup new_layers
        post_layers == ls_displayLayers(layers1)
        post_objs == ls_assemblies(tree1)
        imported_layers == list_difference(post_layers, pre_layers)
        imported_objs == list_difference(post_objs, pre_objs)
        parents == parent # "" /\ node_exists(tree1, parent)
        parent_raises ==
            /\ parents
            /\ \/ parent \in imported_objs
               \/ imported_objs = {} /\ empty_list = "raises"
        tree2 == IF parents /\ ~parent_raises
                 THEN [n \in ImportNodes |->
                        IF n \in imported_objs THEN parent ELSE tree1[n]]
                 ELSE tree1
        deletes == ~parent_raises /\ delete_layers
        delete_raises ==
            deletes /\ imported_layers = {} /\ empty_list = "raises"
        layers2 == IF deletes /\ ~delete_raises
                   THEN layers1 \ imported_layers
                   ELSE layers1
    IN  /\ new_objs \subseteq {n \in ImportNodes : ~node_exists(fi_tree, n)}
        /\ new_layers \subseteq ImportLayers \ fi_layers
        /\ fi_op' = "file_import"
        /\ fi_args' = [file_name |-> file_name, parent |-> parent,
                       namespace |-> namespace,
                       delete_layers |-> delete_layers]
        /\ UNCHANGED fi_files
        /\ IF file_name \notin fi_files
           THEN \* line 238: the assert fails
                /\ fi_result' = "AssertionError"
                /\ fi_post_objs' = {}
                /\ fi_post_layers' = {}
                /\ fi_parent_cmd' = NoCommand
                /\ fi_delete_cmd' = NoCommand
                /\ UNCHANGED <<fi_tree, fi_layers>>
           ELSE /\ fi_post_objs' = post_objs
                /\ fi_post_layers' = post_layers
                /\ fi_parent_cmd' = IF parents
                                    THEN [issued |-> TRUE,
                                          objs |-> imported_objs]
                                    ELSE NoCommand
                /\ fi_delete_cmd' = IF deletes
                                    THEN [issued |-> TRUE,
                                          objs |-> imported_layers]
                                    ELSE NoCommand
                /\ fi_tree' = tree2
                /\ fi_layers' = layers2 \ {defaultLayer}
                /\ fi_result' = IF parent_raises \/ delete_raises
                                THEN "RuntimeError" ELSE "ok"
        /\ UNCHANGED not_fi

\* The host user writes or removes a file, creates a node in world space
\* or under the rig group, deletes a node with everything below it, creates
\* or deletes a display layer.  The record of the last call is dropped.
ImportHostStep ==
    /\ fi_op' = "host"
    /\ fi_args' = NoImportArgs
    /\ fi_post_objs' = {}
    /\ fi_post_layers' = {}
    /\ fi_parent_cmd' = NoCommand
    /\ fi_delete_cmd' = NoCommand
    /\ fi_result' = "ok"

ImportHostWriteFile(f) ==
    /\ f \notin fi_files
    /\ fi_files' = fi_files \cup {f}
    /\ ImportHostStep
    /\ UNCHANGED <<fi_tree, fi_layers>>
    /\ UNCHANGED not_fi

ImportHostRemoveFile(f) ==
    /\ f \in fi_files
    /\ fi_files' = fi_files \ {f}
    /\ ImportHostStep
    /\ UNCHANGED <<fi_tree, fi_layers>>
    /\ UNCHANGED not_fi

ImportHostCreateNode(n, p) ==
    /\ ~node_exists(fi_tree, n)
    /\ p # World => (node_exists(fi_tree, p) /\ p # n)
    /\ fi_tree' = [fi_tree EXCEPT ![n] = p]
    /\ ImportHostStep
    /\ UNCHANGED <<fi_files, fi_layers>>
    /\ UNCHANGED not_fi

ImportHostDeleteNode(n) ==
    /\ node_exists(fi_tree, n)
    /\ fi_tree' = [m \in ImportNodes |->
                        IF m \in descendants(fi_tree, n) THEN Absent
                        ELSE fi_tree[m]]
    /\ ImportHostStep
    /\ UNCHANGED <<fi_files, fi_layers>>
    /\ UNCHANGED not_fi

ImportHostCreateLayer(l) ==
    /\ l \notin fi_layers
    /\ fi_layers' = fi_layers \cup {l}
    /\ ImportHostStep
    /\ UNCHANGED <<fi_files, fi_tree>>
    /\ UNCHANGED not_fi

ImportHostDeleteLayer(l) ==
    /\ l \in fi_layers
    /\ fi_layers' = fi_layers \ {l}
    /\ ImportHostStep
    /\ UNCHANGED <<fi_files, fi_tree>>
    /\ UNCHANGED not_fi

\* An empty scene and no file.
InitImport ==
    /\ fi_files = {}
    /\ fi_tree = [n \in ImportNodes |-> Absent]
    /\ fi_layers = {}
    /\ fi_op = "init"
    /\ fi_args = NoImportArgs
    /\ fi_post_objs = {}
    /\ fi_post_layers = {}
    /\ fi_parent_cmd = NoCommand
    /\ fi_delete_cmd = NoCommand
    /\ fi_result = "ok"

NextImport ==
    \/ \E file_name \in ImportFiles, parent \in ImportParentArgs,
          namespace \in ImportNamespaces, delete_layers \in BOOLEAN,
          new_objs \in SUBSET ImportNodes, new_layers \in SUBSET ImportLayers,
          empty_list \in {"raises", "nothing"} :
            FileImport(file_name, parent, namespace, delete_layers,
                       new_objs, new_layers, empty_list)
    \/ \E f \in ImportFiles : ImportHostWriteFile(f)
    \/ \E f \in ImportFiles : ImportHostRemoveFile(f)
    \/ \E n \in ImportNodes, p \in {World, "rig_grp"} :
            ImportHostCreateNode(n, p)
    \/ \E n \in ImportNodes : ImportHostDeleteNode(n)
    \/ \E l \in ImportLayers : ImportHostCreateLayer(l)
    \/ \E l \in ImportLayers : ImportHostDeleteLayer(l)

(***************************************************************************)
(* export_dyn_weightmaps and import_dyn_weightmaps                         *)
(*                                                                         *)
(* An attribute name is the sequence of its characters, so that endswith   *)
(* is computed; a plug name is the node name, a period and the attribute   *)
(* name.  A value carries its Python type.  The file holds a stream of     *)
(* tokens, one group for each entry of the dictionary and a closing STOP,  *)
(* which pickle_dumps writes and pickle_loads parses.                      *)
(***************************************************************************)
WeightNodes == {"nCloth1", "nRigid1", "hairSystem1"}

nodeType(node) ==
    CASE node = "nCloth1" -> "nCloth"
      [] node = "nRigid1" -> "nRigid"
      [] OTHER -> "hairSystem"

\* Line 447.
weightmap_node_types == {"nRigid", "nucleus", "nCloth"}

tMap == <<"t", "M", "a", "p">>

tPerVertex == <<"t", "P", "e", "r", "V", "e", "r", "t", "e", "x">>

Mapt == <<"M", "a", "p", "t">>

\* cmds.listAttr(node)
listAttr(node) ==
    IF node = "nCloth1" THEN {tMap, tPerVertex, Mapt} ELSE {tPerVertex}

\* '.'.join((node, attr)), line 459.
obj_attr_name(node, attr) == <<node, ".">> \o attr

\* Every plug of the scene.
WeightPlugs ==
    UNION {{obj_attr_name(node, attr) : attr \in listAttr(node)} :
                node \in WeightNodes}

\* Values getAttr may give: a number, None, a list or a tuple of numbers.
FloatValue == [type |-> "float", items |-> <<0>>]

NoneValue == [type |-> "None", items |-> <<>>]

ListValue(items) == [type |-> "list", items |-> items]

TupleValue(items) == [type |-> "tuple", items |-> items]

\* What the host user may paint on each plug.  The plugs of the
\* hairSystem and the attribute Mapt always hold a list.
PaintedValues(plug) ==
    IF plug = obj_attr_name("nCloth1", tMap)
        THEN {FloatValue, ListValue(<<1>>)}
    ELSE IF plug = obj_attr_name("nCloth1", tPerVertex)
        THEN {NoneValue, ListValue(<<1, 2>>), ListValue(<<>>),
              TupleValue(<<2, 1>>)}
    ELSE IF plug = obj_attr_name("nRigid1", tPerVertex)
        THEN {NoneValue, ListValue(<<1, 2>>), ListValue(<<3>>)}
    ELSE {ListValue(<<1>>)}

\* str.endswith
endswith(s, suffix) ==
    /\ Len(s) >= Len(suffix)
    /\ SubSeq(s, Len(s) - Len(suffix) + 1, Len(s)) = suffix

\* Mutant: only the attributes that end in 'Map' are looked at.
is_weightmap_attr_map_only(attr) == endswith(attr, <<"M", "a", "p">>)

\* Lines 454-456: map_attrs + vert_attrs.
is_weightmap_attr(attr) ==
    \/ endswith(attr, <<"M", "a", "p">>)
    \/ endswith(attr, <<"P", "e", "r", "V", "e", "r", "t", "e", "x">>)

\* Line 462: isinstance(attr_value, (list, tuple)).
is_painted(value) == value.type \in {"list", "tuple"}

\* Lines 446-463: the dictionary the export builds.
export_dict(values) ==
    LET dyn_nodes == {n \in WeightNodes : nodeType(n) \in weightmap_node_types}
        keys == UNION {
            {obj_attr_name(node, attr) :
                attr \in {a \in listAttr(node) :
                    /\ is_weightmap_attr(a)
                    /\ is_painted(values[obj_attr_name(node, a)])}} :
            node \in dyn_nodes}
    IN  [k \in keys |-> values[k]]

NoFile == <<"<no file>">>

\* pickle.dump: for each entry a MARK, the key, the type of the value, the
\* number of its items and the items; STOP at the end.
RECURSIVE pickle_dumps(_)
pickle_dumps(d) ==
    IF DOMAIN d = {} THEN <<"STOP">>
    ELSE LET k == CHOOSE x \in DOMAIN d : TRUE
             rest == [x \in DOMAIN d \ {k} |-> d[x]]
         IN  <<"MARK", k, d[k].type, Len(d[k].items)>> \o d[k].items
                \o pickle_dumps(rest)

\* pickle.load: parses the stream back into a dictionary.
RECURSIVE pickle_loads(_)
pickle_loads(bytes) ==
    IF bytes[1] = "STOP" THEN <<>>
    ELSE LET k == bytes[2]
             n == bytes[4]
             value == [type |-> bytes[3], items |-> SubSeq(bytes, 5, 4 + n)]
             rest == pickle_loads(SubSeq(bytes, 5 + n, Len(bytes)))
         IN  [x \in {k} \cup DOMAIN rest |->
                IF x = k THEN value ELSE rest[x]]

\* What getAttr gives after setAttr(plug, value, type='doubleArray'): the
\* host keeps the numbers and returns them as a list.
doubleArray(value) == ListValue(value.items)

\* export_dyn_weightmaps(file_path)
ExportWeightmaps ==
    LET d == export_dict(wm_values)
    IN  /\ wm_op' = "export"
        /\ wm_result' = "ok"
        /\ IF DOMAIN d = {}
           THEN \* lines 465-467: nothing to export, only logged
                UNCHANGED <<wm_file, wm_exported>>
           ELSE /\ wm_file' = pickle_dumps(d)
                /\ wm_exported' = d
        /\ wm_before' = wm_values
        /\ wm_set' = <<>>
        /\ UNCHANGED wm_values
        /\ UNCHANGED not_wm

\* import_dyn_weightmaps(file_path)
ImportWeightmaps ==
    /\ wm_op' = "import"
    /\ wm_before' = wm_values
    /\ IF wm_file = NoFile
       THEN \* line 481: the assert fails
            /\ wm_result' = "AssertionError"
            /\ wm_set' = <<>>
            /\ UNCHANGED wm_values
       ELSE LET weights_dict == pickle_loads(wm_file)
            IN  /\ wm_result' = "ok"
                /\ wm_set' = weights_dict
                /\ wm_values' = [p \in WeightPlugs |->
                                    IF p \in DOMAIN weights_dict
                                    THEN doubleArray(weights_dict[p])
                                    ELSE wm_values[p]]
    /\ UNCHANGED <<wm_file, wm_exported>>
    /\ UNCHANGED not_wm

\* The host user paints or clears a map, or removes the file.
WeightHostPaint(plug, value) ==
    /\ wm_values[plug] # value
    /\ wm_values' = [wm_values EXCEPT ![plug] = value]
    /\ wm_op' = "host"
    /\ wm_before' = wm_values'
    /\ wm_set' = <<>>
    /\ wm_result' = "ok"
    /\ UNCHANGED <<wm_file, wm_exported>>
    /\ UNCHANGED not_wm

WeightHostRemoveFile ==
    /\ wm_file # NoFile
    /\ wm_file' = NoFile
    /\ wm_exported' = <<>>
    /\ wm_op' = "host"
    /\ wm_before' = wm_values
    /\ wm_set' = <<>>
    /\ wm_result' = "ok"
    /\ UNCHANGED wm_values
    /\ UNCHANGED not_wm

\* A scene with nothing painted on the nCloth and the nRigid, and no file.
InitWeight ==
    /\ wm_values = [p \in WeightPlugs |->
                        IF p = obj_attr_name("nCloth1", tMap) THEN FloatValue
                        ELSE IF p \in {obj_attr_name("nCloth1", tPerVertex),
                                       obj_attr_name("nRigid1", tPerVertex)}
                        THEN NoneValue
                        ELSE ListValue(<<1>>)]
    /\ wm_file = NoFile
    /\ wm_exported = <<>>
    /\ wm_op = "init"
    /\ wm_before = wm_values
    /\ wm_set = <<>>
    /\ wm_result = "ok"

NextWeight ==
    \/ ExportWeightmaps
    \/ ImportWeightmaps
    \/ \E plug \in WeightPlugs : \E value \in PaintedValues(plug) :
            WeightHostPaint(plug, value)
    \/ WeightHostRemoveFile

(***************************************************************************)
(* Hair.execute                                                            *)
(*                                                                         *)
(* One action for each step of execute() that the interpreter reaches, one *)
(* for each turn of the loop of rebuild_curves.  The names hair.py binds   *)
(* at module level are those of its import statements (lines 9-17) and of  *)
(* logger and Hair.                                                        *)
(***************************************************************************)
hair_module_globals ==
    {"getLogger", "re_search", "re_split", "cmds", "mel", "maya_group",
     "maya_utils", "mc", "logger", "Hair"}

\* The groups of Hair.create_dynamics_hierarchy, in its order (lines
\* 107-111), and their parent.
hair_groups ==
    <<"nRigids_grp", "constraints_grp", "groom_grp", "follicle_grp",
      "groom_output_curves">>

HairUniverse == Range(hair_groups) \cup {system_group_name}

groomShape == "groomShape"

\* The curves pgYetiConvertGroomToCurves may put into the set: their names
\* share one prefix and end in a number, but for one that has no number.
c0 == <<"c", "0">>

c9 == <<"c", "9">>

c10 == <<"c", "1", "0">>

cx == <<"c", "x">>

YetiCurves == {c0, c9, c10, cx}

\* Lines 154-156: sorted(curves, key=num_key) for the names that end in a
\* number, which with one prefix is the order of the numbers.
RECURSIVE sorted_by_number(_)
sorted_by_number(curves) ==
    IF curves = {} THEN <<>>
    ELSE LET first == CHOOSE c \in curves : \A d \in curves :
                        int(re_search_trailing_digits(c))
                            <= int(re_search_trailing_digits(d))
         IN  <<first>> \o sorted_by_number(curves \ {first})

\* Lines 159-162: the name a curve is given.
output_curve_name(curve) ==
    <<"groom_output_curve_">>
        \o zfill(str(int(re_search_trailing_digits(curve)) + 1), 3)

\* Lines 158-165: the curves that end in a number, renamed, in order.
renamed_curves(curves) ==
    LET numbered == {c \in curves : re_search_trailing_digits(c) # <<>>}
        order == sorted_by_number(numbered)
    IN  [i \in 1..Len(order) |-> output_curve_name(order[i])]

\* The Group objects of create_dynamics_hierarchy are new ones with the
\* defaults of Group.__init__ but for the parent.
hair_group_object(name) ==
    [name |-> name, node |-> name, nodes |-> {},
     parent |-> system_group_name, lock_attrs |-> TRUE, viz |-> TRUE]

\* Lines 112-113: the groups that do not exist yet.
missing_groups(tree) ==
    {g \in Range(hair_groups) :
        commands_issued(tree, hair_group_object(g)) # <<>>}

\* Hair(prefix, description, groom): __init__ leaves groom_shape None when
\* the groom does not exist or has no pgYetiGroom shape (lines 83-97).
HairNew(groom_shape) ==
    /\ hx_pc \in {"idle", "returned", "raised"}
    /\ hx_groom_shape' = groom_shape
    /\ hx_pc' = "idle"
    /\ hx_trace' = <<>>
    /\ hx_output_curves' = <<>>
    /\ hx_rebuilt' = {}
    /\ hx_follicles' = {}
    /\ hx_cmds' = 0
    /\ hx_error' = "none"
    /\ UNCHANGED hx_tree
    /\ UNCHANGED not_hx

\* execute(), lines 621-624.
HairExecute ==
    /\ hx_pc = "idle"
    /\ IF hx_groom_shape = None
       THEN \* lines 621-623: logged, nothing done
            /\ hx_pc' = "returned"
            /\ UNCHANGED hx_trace
       ELSE /\ hx_pc' = "create_dynamics_hierarchy"
            /\ hx_trace' = Append(hx_trace, "create_dynamics_hierarchy")
    /\ UNCHANGED <<hx_tree, hx_groom_shape, hx_output_curves, hx_rebuilt,
                   hx_follicles, hx_cmds, hx_error>>
    /\ UNCHANGED not_hx

\* Line 626.  Each missing group is made under the system group; the
\* host's group command raises RuntimeError when that parent does not
\* exist.
HairCreateDynamicsHierarchy ==
    LET missing == missing_groups(hx_tree)
        raises == missing # {} /\ ~node_exists(hx_tree, system_group_name)
    IN  /\ hx_pc = "create_dynamics_hierarchy"
        /\ IF raises
           THEN /\ hx_pc' = "raised"
                /\ hx_error' = "RuntimeError"
                /\ hx_cmds' = hx_cmds + 1
                /\ UNCHANGED <<hx_tree, hx_trace>>
           ELSE /\ hx_pc' = "curves_from_yeti"
                /\ hx_trace' = Append(hx_trace, "curves_from_yeti")
                /\ hx_tree' = [n \in HairUniverse |->
                                IF n \in missing THEN system_group_name
                                ELSE hx_tree[n]]
                /\ hx_cmds' = hx_cmds + Cardinality(missing)
                /\ UNCHANGED hx_error
        /\ UNCHANGED <<hx_groom_shape, hx_output_curves, hx_rebuilt,
                       hx_follicles>>
        /\ UNCHANGED not_hx

\* Line 628.  curves is what the Yeti conversion put into its set;
\* empty_list is what the host's parent command does with an empty list.
HairCurvesFromYeti(curves, empty_list) ==
    LET renamed == renamed_curves(curves)
        raises == renamed = <<>> /\ empty_list = "raises"
    IN  /\ hx_pc = "curves_from_yeti"
        /\ hx_output_curves' = renamed
        /\ hx_cmds' = hx_cmds + 2 + Len(renamed) + 1
        /\ hx_pc' = IF raises THEN "raised" ELSE "rebuild_curves"
        /\ hx_trace' = IF raises THEN hx_trace
                       ELSE Append(hx_trace, "rebuild_curves")
        /\ hx_error' = IF raises THEN "RuntimeError" ELSE hx_error
        /\ UNCHANGED <<hx_tree, hx_groom_shape, hx_rebuilt, hx_follicles>>
        /\ UNCHANGED not_hx

\* Line 630, one turn of the loop of rebuild_curves (lines 171-180).
HairRebuildCurve ==
    /\ hx_pc = "rebuild_curves"
    /\ Cardinality(hx_rebuilt) < Len(hx_output_curves)
    /\ hx_rebuilt' =
            hx_rebuilt \cup {hx_output_curves[Cardinality(hx_rebuilt) + 1]}
    /\ hx_cmds' = hx_cmds + 1
    /\ UNCHANGED <<hx_tree, hx_groom_shape, hx_pc, hx_trace, hx_output_curves,
                   hx_follicles, hx_error>>
    /\ UNCHANGED not_hx

\* The loop of rebuild_curves ends and line 632 evaluates the name
\* dyn_hair: the function is defined in cfx.maya.commands, which hair.py
\* imports as mc, and the bare name is not bound in hair.py.
HairDynHair ==
    /\ hx_pc = "rebuild_curves"
    /\ Cardinality(hx_rebuilt) = Len(hx_output_curves)
    /\ hx_trace' = Append(hx_trace, "dyn_hair")
    /\ IF "dyn_hair" \in hair_module_globals
       THEN /\ hx_pc' = "parenting"
            /\ hx_follicles' = Range(hx_output_curves)
            /\ UNCHANGED hx_error
       ELSE /\ hx_pc' = "raised"
            /\ hx_error' = "NameError"
            /\ UNCHANGED hx_follicles
    /\ UNCHANGED <<hx_tree, hx_groom_shape, hx_output_curves, hx_rebuilt,
                   hx_cmds>>
    /\ UNCHANGED not_hx

\* Between calls the host user creates a group of the rig in world space
\* or under the system group, or deletes one with everything below it.
HairHostCreate(n, p) ==
    /\ hx_pc \in {"idle", "returned", "raised"}
    /\ ~node_exists(hx_tree, n)
    /\ p # World => (node_exists(hx_tree, p) /\ p # n)
    /\ hx_tree' = [hx_tree EXCEPT ![n] = p]
    /\ UNCHANGED <<hx_groom_shape, hx_pc, hx_trace, hx_output_curves,
                   hx_rebuilt, hx_follicles, hx_cmds, hx_error>>
    /\ UNCHANGED not_hx

HairHostDelete(n) ==
    /\ hx_pc \in {"idle", "returned", "raised"}
    /\ node_exists(hx_tree, n)
    /\ hx_tree' = [m \in HairUniverse |->
                        IF m \in descendants(hx_tree, n) THEN Absent
                        ELSE hx_tree[m]]
    /\ UNCHANGED <<hx_groom_shape, hx_pc, hx_trace, hx_output_curves,
                   hx_rebuilt, hx_follicles, hx_cmds, hx_error>>
    /\ UNCHANGED not_hx

\* A Hair object whose groom was not found, in an empty scene.
InitHair ==
    /\ hx_tree = [n \in HairUniverse |-> Absent]
    /\ hx_groom_shape = None
    /\ hx_pc = "idle"
    /\ hx_trace = <<>>
    /\ hx_output_curves = <<>>
    /\ hx_rebuilt = {}
    /\ hx_follicles = {}
    /\ hx_cmds = 0
    /\ hx_error = "none"

NextHair ==
    \/ \E groom_shape \in {None, groomShape} : HairNew(groom_shape)
    \/ HairExecute
    \/ HairCreateDynamicsHierarchy
    \/ \E curves \in SUBSET YetiCurves, empty_list \in {"raises", "nothing"} :
            HairCurvesFromYeti(curves, empty_list)
    \/ HairRebuildCurve
    \/ HairDynHair
    \/ \E n \in HairUniverse, p \in {World, system_group_name} :
            HairHostCreate(n, p)
    \/ \E n \in HairUniverse : HairHostDelete(n)

(***************************************************************************)
(* Initial states and specifications                                       *)
(***************************************************************************)
Init ==
    /\ InitIndex
    /\ InitName
    /\ InitVersion
    /\ InitUndo
    /\ InitCache
    /\ InitUi
    /\ InitNode
    /\ InitSetAttr
    /\ InitGroup
    /\ InitLayer
    /\ InitImport
    /\ InitWeight
    /\ InitHair

Next ==
    \/ NextIndex
    \/ NextName
    \/ NextVersion
    \/ NextUndo
    \/ NextCache
    \/ NextUi
    \/ NextNode
    \/ NextSetAttr
    \/ NextGroup
    \/ NextLayer
    \/ NextImport
    \/ NextWeight
    \/ NextHair

\* Every part of the library at once.
Spec == Init /\ [][Next]_vars

\* One specification for each part, the rest of the state at rest.
SpecIndex == Init /\ [][NextIndex]_vars

SpecName == Init /\ [][NextName]_vars

\* The interpreter runs a call to its end: a step of the while loop that can
\* be taken is taken.
SpecNameFair ==
    SpecName /\ WF_vars(GetNextNameLoop) /\ WF_vars(GetNextNameReturn)

SpecVersion == Init /\ [][NextVersion]_vars

SpecUndo == Init /\ [][NextUndo]_vars

SpecCache == Init /\ [][NextCache]_vars

SpecUi == Init /\ [][NextUi]_vars

SpecNode == Init /\ [][NextNode]_vars

SpecSetAttr == Init /\ [][NextSetAttr]_vars

SpecGroup == Init /\ [][NextGroup]_vars

SpecLayer == Init /\ [][NextLayer]_vars

SpecImport == Init /\ [][NextImport]_vars

SpecWeight == Init /\ [][NextWeight]_vars

SpecHair == Init /\ [][NextHair]_vars

(***************************************************************************)
(* Properties                                                              *)
(***************************************************************************)
\* The smallest non-negative integer that is not in S.
Mex(S) == Min((0..Cardinality(S)) \ S)

IsAscending(s) == \A i, j \in DOMAIN s : i < j => s[i] < s[j]

IsContiguous(s) == \A i \in DOMAIN s : s[i] = i - 1

TracePositions(kinds, id) ==
    {i \in DOMAIN ud_trace : ud_trace[i][1] \in kinds /\ ud_trace[i][2] = id}

\* C3: every call of a wrapped function brackets the function's host
\* commands in one undo chunk: one open before its first command, one close
\* after its last, the close made exactly once by the time the call has
\* returned or raised and right before that exit, the result passed through
\* unchanged; the number of open chunks is the starting value plus the calls
\* in progress, so it is back at the starting value when none is.
C3_UndoChunkBracketsCall ==
    /\ ud_chunks = ud_base + Len(ud_stack)
    /\ ud_ret = ud_func_ret
    /\ \A id \in 1..ud_calls :
        LET opens == TracePositions({"open"}, id)
            closes == TracePositions({"close"}, id)
            exits == TracePositions({"return", "raise"}, id)
            commands == TracePositions({"cmd"}, id)
        IN  /\ Cardinality(opens) = 1
            /\ \A c \in commands : \A o \in opens : o < c
            /\ \A c \in commands : \A k \in closes : c < k
            /\ IF id \in Range(ud_stack)
               THEN closes = {} /\ exits = {}
               ELSE /\ Cardinality(closes) = 1
                    /\ Cardinality(exits) = 1
                    /\ \A k \in closes : k + 1 \in exits

\* C3 witness: a call nested in call 1 raised and took call 1 with it, a
\* later call issued a command and returned a constraint's name, and no
\* call is in progress.
C3_Witness ==
    /\ ud_stack = <<>>
    /\ ud_ret = "nucleusConstraint1"
    /\ \E i, j, k, l \in DOMAIN ud_trace :
        /\ i < j /\ j < k /\ k < l
        /\ ud_trace[i] = <<"open", 2>>
        /\ ud_trace[j] = <<"raise", 2>>
        /\ ud_trace[k] = <<"raise", 1>>
        /\ ud_trace[l] = <<"cmd", 3>>

\* What the claim lists as cache_sim's preconditions.
CachePreconditions(args, scene) ==
    /\ args.start_frame \in {"int", "float"}
    /\ args.end_frame \in {"int", "float"}
    /\ args.nodes # {}
    /\ \A n \in args.nodes : n \in scene
    /\ args.cache_file_ext = "mcx" \/ args.cache_file_ext = "mcc"

\* C4: a cache_sim call whose start_frame or end_frame is not an int or
\* float, whose nodes are empty or name a node that does not exist, or whose
\* cache_file_ext is not mcx or mcc fails with an assertion error, and the
\* selection is unchanged, no cache is deleted and no cache command is
\* evaluated.
C4_FailedPreconditionTouchesNothing ==
    [][(/\ cs_result' \in {"AssertionError", "RuntimeError", "ok"}
        /\ ~CachePreconditions(cs_args', cs_scene))
       => /\ cs_result' = "AssertionError"
          /\ selection' = selection
          /\ cs_cached' = cs_cached
          /\ cs_scene' = cs_scene
          /\ cs_deleted' = {}
          /\ cs_mel' = <<>>
          /\ cs_selects' = 0]_vars

\* C4 witness: a call that is wrong only in its file extension failed, in a
\* scene where its nodes exist and have caches and something else is
\* selected.
C4_Witness ==
    /\ cs_result = "AssertionError"
    /\ cs_args.cache_file_ext = "abc"
    /\ cs_args.start_frame = "int" /\ cs_args.end_frame = "float"
    /\ cs_args.nodes = {"nCloth1"}
    /\ "nCloth1" \in cs_cached
    /\ selection = {"hairSystem1"}

\* C5: every get_next_name call ends, and the name it returns is not one of
\* existing_names.
C5_NextNameEndsUnused ==
    /\ [](gnn_pc = "done" => gnn_new_name \notin gnn_existing)
    /\ [](gnn_pc = "loop" => <>(gnn_pc = "done"))

\* C5 witness: a call whose first candidate and the one after it were taken
\* has returned.
C5_Witness ==
    /\ gnn_pc = "done"
    /\ first_candidate(gnn_name, gnn_padding) \in gnn_existing
    /\ gnn_num >= initial_num(gnn_name) + 3
    /\ gnn_new_name \notin gnn_existing

\* C6 as claimed: whenever name is not an element of existing_names,
\* get_next_name returns name.
C6_UntakenNameReturned ==
    (gnn_pc = "done" /\ gnn_name \notin gnn_existing) => gnn_new_name = gnn_name

IsDigits(s) == \A i \in DOMAIN s : s[i] \in Digits

\* C7: version_up_file, for a scene file whose base name ends in a run of
\* digits of width w and value n, renames the scene to, saves and returns
\* the path in the same directory with the same prefix and extension whose
\* number is n+1, zero-padded to at least w digits.
C7_VersionUpIncrementsNumber ==
    vu_op = "version_up" =>
        \A dir \in SceneDirs, prefix \in ScenePrefixes,
           digits \in SceneDigits \ {<<>>}, ext \in SceneExts :
            vu_before = ScenePath(dir, prefix, digits, ext) =>
                /\ "path" \in DOMAIN vu_result
                /\ vu_renamed
                /\ scene_path = vu_result.path
                /\ vu_written = vu_result
                /\ LET r == vu_result.path
                       head == os_join_path(dir, prefix)
                       number == SubSeq(r, Len(head) + 1, Len(r) - Len(ext))
                   IN  /\ SubSeq(r, 1, Len(head)) = head
                       /\ SubSeq(r, Len(r) - Len(ext) + 1, Len(r)) = ext
                       /\ number # <<>> /\ IsDigits(number)
                       /\ int(number) = int(digits) + 1
                       /\ Len(number) >= Len(digits)
                       /\ Len(number) > Len(digits) => number[1] # "0"

\* C7 witness: /p.1/s099.ma was saved as /p.1/s100.ma.
C7_Witness ==
    /\ vu_op = "version_up"
    /\ vu_before = <<"/", "p", ".", "1", "/", "s", "0", "9", "9", ".", "m", "a">>
    /\ vu_written = [path |-> <<"/", "p", ".", "1", "/", "s", "1", "0", "0", ".", "m", "a">>]

\* The name of the file of path p without its extension.
BaseName(p) == splitext(basename(p)).root

\* C8: version_up_file on a scene file whose base name does not end in a
\* digit neither renames nor saves the scene, shows no pop-up even when
\* popup_confirmation is true, logs a warning and returns None.
C8_NoNumberNothingSaved ==
    (/\ vu_op = "version_up"
     /\ (BaseName(vu_before) = <<>>
            \/ BaseName(vu_before)[Len(BaseName(vu_before))] \notin Digits))
    => /\ vu_result = [none |-> TRUE]
       /\ ~vu_renamed
       /\ vu_written = [none |-> TRUE]
       /\ scene_path = vu_before
       /\ ~vu_popup
       /\ vu_warned

\* C8 witness: the call was made with popup_confirmation on a scene file
\* whose name has no number, and it returned None.
C8_Witness ==
    /\ vu_op = "version_up"
    /\ vu_popup_arg
    /\ vu_before = <<"/", "p", ".", "1", "/", "s", ".", "m", "a">>
    /\ vu_result = [none |-> TRUE]

\* C9: after any sequence of show_ui calls, at most one window of a class
\* that is a child of the main host window is shown and not scheduled for
\* deletion; every window the last call found is hidden and scheduled for
\* deletion, and the window the call made is not one of them.
C9_AtMostOneWindowShown ==
    /\ \A class_name \in UiClasses :
        Cardinality({w \in ui_wins : /\ w.cls = class_name
                                     /\ w.child
                                     /\ w.shown
                                     /\ ~w.doomed}) <= 1
    /\ \A w \in ui_wins : w.id \in ui_last.found => ~w.shown /\ w.doomed
    /\ \A id \in ui_last.found : id < ui_next_id - 1 \/ ui_last.outcome # "shown"

\* C9 witness: a show_ui call found a shown window of its class, and its own
\* window is shown while the old one waits, hidden, for its deletion.
C9_Witness ==
    /\ ui_last.cls = "TemplateUI"
    /\ ui_last.outcome = "shown"
    /\ \E w, v \in ui_wins :
        /\ w.id \in ui_last.found /\ w.doomed /\ ~w.shown
        /\ v.id = ui_next_id - 1 /\ v.cls = "TemplateUI" /\ v.shown /\ v.child

\* C10: the handle is one node name (or empty, or None); exists() returns
\* True exactly when the handle is non-empty and names an existing object; a
\* call that returns False sets the handle to None; with the handle None,
\* exists() returns False and every method that asserts exists() fails, and
\* only set_node changes the handle again, whatever is created in the scene.
C10_ClearedHandleStaysCleared ==
    [][/\ nd_handle' \in NodeNames \cup {"", None}
       /\ nd_op' = "exists" =>
            /\ nd_result' \in {"True", "False"}
            /\ nd_result' = "True" <=>
                    (nd_handle # None /\ nd_handle # "" /\ nd_handle \in nd_scene)
            /\ nd_result' = "False" => nd_handle' = None
       /\ (nd_handle = None /\ nd_op' = "exists") => nd_result' = "False"
       /\ (nd_handle = None /\ nd_op' \in AssertingMethods)
            => nd_result' = "AssertionError"
       /\ (nd_handle = None /\ nd_handle' # None) => nd_op' = "set_node"]_vars

\* C10 witness: exists() cleared the handle, a node of the cleared name was
\* created afterwards, and exists() returned False again.
C10_Witness ==
    /\ nd_handle = None
    /\ nd_cleared \in nd_scene
    /\ nd_op = "exists"
    /\ nd_result = "False"

\* C11: when the node exists and the plug '<node>.<attribute>' exists,
\* set_attr(attribute, value) gives the host's setAttr exactly that plug,
\* returns the string '<node>.<attribute>', changes that plug's value to the
\* given one and writes no other plug.
C11_SetAttrWritesNamedPlug ==
    [][(/\ sa_op' = "set_attr"
        /\ handle_found(sa_handle, sa_scene)
        /\ objExists(join_period(sa_handle, sa_attr'), sa_scene))
       => /\ sa_issued' = join_period(sa_handle, sa_attr')
          /\ sa_outcome' = "returned"
          /\ sa_result' = join_period(sa_handle, sa_attr')
          /\ \A n \in SetAttrNodes \ {sa_handle} :
                sa_values'[n] = sa_values[n]]_vars

\* C12: create() for a name that does not exist issues exactly one group
\* command, under parent when one is given and in world space otherwise, with
\* the given member nodes; for a name that exists it issues no group command
\* and leaves that node's parent and members as they are; in both cases,
\* when the host carries out the command, it returns the group's name, and
\* the name then exists.
C12_CreateIsIdempotent ==
    [][grp_op' = "create" =>
        LET name == grp_obj.name
            existed == node_exists(grp_tree, name)
        IN  /\ ~existed =>
                /\ Len(grp_issued') = 1
                /\ grp_issued'[1].name = name
                /\ grp_issued'[1].members = grp_obj.nodes
                /\ grp_issued'[1].parent =
                        (IF grp_obj.parent # "" THEN grp_obj.parent ELSE World)
            /\ existed =>
                /\ grp_issued' = <<>>
                /\ grp_tree'[name] = grp_tree[name]
                /\ children_of(grp_tree', name) = children_of(grp_tree, name)
            /\ grp_result' # "RuntimeError" =>
                /\ grp_result' = name
                /\ node_exists(grp_tree', name)]_vars

\* C13: a display_layer(obj, layer_name, ...) call that returns, for an obj
\* that exists, returns layer_name and leaves a display layer of that name
\* with obj a member of it; the call issues createDisplayLayer only when no
\* layer of that name existed, so that of successive calls with one
\* layer_name only the first creates the layer.
C13_LayerExistsWithMember ==
    [][dl_op' = "display_layer" =>
        LET obj == dl_args'.obj
            layer_name == dl_args'.layer_name
        IN  /\ (obj \in dl_objs /\ dl_result' # "RuntimeError") =>
                /\ dl_result' = layer_name
                /\ layer_name \in dl_layers'
                /\ dl_member'[obj] = layer_name
            /\ dl_created' => layer_name \notin dl_layers
            /\ layer_name \in dl_layers =>
                (~dl_created' /\ layer_name \in dl_layers')]_vars

\* C13 witness: a second call with the same layer_name found the layer, did
\* not create it, and added another object to it.
C13_Witness ==
    /\ dl_op = "display_layer"
    /\ dl_result = dl_args.layer_name
    /\ ~dl_created
    /\ dl_args.obj \in dl_objs
    /\ \A n \in LayerObjects : n \in dl_objs /\ dl_member[n] = dl_args.layer_name

\* C14: when the file does not exist file_import fails its assertion and
\* the scene is as before; otherwise the nodes it gives cmds.parent (only
\* when parent is given and exists) and the layers it gives cmds.delete
\* (only when delete_layers is true) are exactly those in the scene after
\* the import and not before it, every top-level node and every display
\* layer that was there before the call is still there, top-level nodes
\* still top-level, and a call that completes leaves each imported top-level
\* node under parent and no imported layer.
C14_ImportTouchesOnlyImported ==
    [][fi_op' = "file_import" =>
        LET pre_objs == ls_assemblies(fi_tree)
            pre_layers == ls_displayLayers(fi_layers)
            parent == fi_args'.parent
            new_objs == fi_post_objs' \ pre_objs
            new_layers == fi_post_layers' \ pre_layers
        IN  IF fi_args'.file_name \notin fi_files
            THEN /\ fi_result' = "AssertionError"
                 /\ fi_tree' = fi_tree
                 /\ fi_layers' = fi_layers
                 /\ ~fi_parent_cmd'.issued
                 /\ ~fi_delete_cmd'.issued
            ELSE /\ fi_parent_cmd'.issued =>
                    /\ fi_parent_cmd'.objs = new_objs
                    /\ parent # ""
                 /\ fi_delete_cmd'.issued =>
                    /\ fi_delete_cmd'.objs = new_layers
                    /\ fi_args'.delete_layers
                 /\ \A n \in pre_objs : fi_tree'[n] = World
                 /\ fi_layers \subseteq fi_layers'
                 /\ fi_result' = "ok" =>
                    /\ fi_layers' = IF fi_args'.delete_layers
                                    THEN fi_layers
                                    ELSE fi_post_layers' \ {defaultLayer}
                    /\ \A n \in new_objs :
                        fi_tree'[n] = IF fi_parent_cmd'.issued
                                      THEN parent ELSE World]_vars

\* C14 witness: an import into a scene with a top-level node and a display
\* layer of its own put its node under the parent and deleted its layer.
C14_Witness ==
    /\ fi_op = "file_import"
    /\ fi_result = "ok"
    /\ fi_parent_cmd = [issued |-> TRUE, objs |-> {"imported1"}]
    /\ fi_delete_cmd = [issued |-> TRUE, objs |-> {"importedLayer"}]
    /\ fi_tree = [n \in ImportNodes |->
                    IF n = "imported1" THEN "rig_grp" ELSE World]
    /\ fi_layers = {"layerA"}

\* The plugs the claim names: attributes of an nRigid, nucleus or nCloth
\* node whose name ends in 'Map' or 'PerVertex' and whose value is a list
\* or a tuple.
PaintedMapPlugs(values) ==
    {p \in WeightPlugs :
        /\ p[1] \in {"nCloth1", "nRigid1"}
        /\ SubSeq(p, 3, Len(p)) \in {tMap, tPerVertex}
        /\ values[p].type \in {"list", "tuple"}}

ExecuteSteps ==
    <<"create_dynamics_hierarchy", "curves_from_yeti", "rebuild_curves",
      "dyn_hair", "parenting", "hair_system_defaults", "create_layers",
      "update_set", "yeti_defaults", "connect_yeti_graph">>

\* C16: with groom_shape None, execute() returns having entered no step and
\* issued no scene-changing host command; otherwise, unless a host command
\* fails, an execute() that has ended has run its ten steps in their fixed
\* order; and a follicle is only ever created for an output curve that has
\* been rebuilt.
C16_ExecuteRunsAllSteps ==
    /\ hx_pc = "returned" =>
        (hx_groom_shape = None /\ hx_trace = <<>> /\ hx_cmds = 0)
    /\ (hx_pc \in {"returned", "raised"} /\ hx_groom_shape # None
            /\ hx_error # "RuntimeError") =>
        hx_trace = ExecuteSteps
    /\ hx_follicles \subseteq hx_rebuilt

=============================================================================
